---- MODULE Spec2Model ----
(***************************************************************************)
(* Prolly-tree collections of kalman/noms: the sequence cursor, the        *)
(* sequence chunker and the List / Map / Set facades built on them.        *)
(*                                                                         *)
(* A sequence is a record [isMeta, items].  A leaf holds values (List,     *)
(* Set) or <<key, value>> pairs (Map); a meta sequence holds meta tuples   *)
(* [ref, key, numLeaves].  A ref is content addressed, so it is modelled   *)
(* by the child sequence itself: two refs are the same ref exactly when    *)
(* the chunks they name have the same contents.                            *)
(***************************************************************************)
EXTENDS Integers, Sequences, FiniteSets, TLC

\* ------------------------------------------------------------------ bounds
MaxVal == 2      \* values and keys are 1..MaxVal
MaxLen == 4      \* longest collection the model builds
MaxIns == 1      \* most items one splice inserts
MaxDel == 1      \* most items one splice removes

MaxKey == 3      \* keys of Maps and members of Sets are 1..MaxKey
MaxKvs == 3      \* longest input array of new Map / new Set
MaxDepth == 3    \* tallest List tree the model goes on with
MaxSeek == 2     \* largest offset of a seek, and how far past the end one goes

Values == 1..MaxVal

\* ----------------------------------------------------------------- helpers
Last(s) == s[Len(s)]

Min(a, b) == IF a < b THEN a ELSE b

Max(a, b) == IF a > b THEN a ELSE b

RECURSIVE SumSeq(_)
SumSeq(s) == IF s = <<>> THEN 0 ELSE Head(s) + SumSeq(Tail(s))

RECURSIVE Concat(_)
Concat(ss) == IF ss = <<>> THEN <<>> ELSE Head(ss) \o Concat(Tail(ss))

\* The element of a one-element set: The({e(x) : x \in {v}}) is e with x
\* standing for the value of v.
The(S) == CHOOSE r \in S : TRUE

\* Sequences over S of length lo..hi.
SeqsOf(S, lo, hi) == UNION {[1..n -> S] : n \in lo..hi}

\* -------------------------------------------------- sequences (data model)
\* The absent sequence (null): what a leaf's getChildSequence resolves to.
NoSeq == [kind |-> "none", isMeta |-> FALSE, items |-> <<>>]

newLeafSequence(kind, items) == [kind |-> kind, isMeta |-> FALSE, items |-> items]

newMetaSequence(kind, tuples) == [kind |-> kind, isMeta |-> TRUE, items |-> tuples]

newMetaTuple(ref, key, numLeaves) == [ref |-> ref, key |-> key, numLeaves |-> numLeaves]

\* MetaSequence constructor: _offsets[i] is the running sum of numLeaves.
metaOffsets(seq) == [i \in 1..Len(seq.items) |->
                        SumSeq([j \in 1..i |-> seq.items[j].numLeaves])]

numLeaves(seq) ==
    IF seq.isMeta
    THEN (IF seq.items = <<>> THEN 0 ELSE metaOffsets(seq)[Len(seq.items)])
    ELSE Len(seq.items)

\* The code's cumulativeNumberOfLeaves(idx), idx counted from 0.
leafCumulativeNumberOfLeaves(idx) == idx

cumulativeNumberOfLeaves(seq, idx) ==
    IF seq.isMeta THEN metaOffsets(seq)[idx + 1] ELSE leafCumulativeNumberOfLeaves(idx)

getChildSequence(seq, idx) ==
    IF seq.isMeta THEN seq.items[idx + 1].ref ELSE NoSeq

\* The leaf items below a sequence, left to right.
RECURSIVE Flatten(_)
Flatten(seq) ==
    IF seq.isMeta
    THEN Concat([i \in 1..Len(seq.items) |-> Flatten(seq.items[i].ref)])
    ELSE seq.items

\* ------------------------------------------------------------ ordered keys
\* A map entry is [key, value]: entry[0] and entry[1] in the code, and the
\* first and second component of a tuple here.
KEY == 1

VALUE == 2

\* Values are numbers, so every OrderedKey is ordered by value and compare is
\* the numeric order.
compare(a, b) == IF a < b THEN 0 - 1 ELSE IF a > b THEN 1 ELSE 0

equals(a, b) == a = b

\* getKey(idx): a map leaf reads the entry's key, a set leaf the item, a meta
\* sequence the tuple's key.
getKey(seq, idx) ==
    IF seq.isMeta THEN seq.items[idx + 1].key
    ELSE IF seq.kind = "Map" THEN seq.items[idx + 1][KEY]
    ELSE seq.items[idx + 1]

\* ------------------------------------------------------ rolling value hasher
WindowSize == 3

\* The pattern is PatternWidth bits wide: a boundary is crossed when the low
\* PatternWidth bits of the window's hash are all ones.
PatternWidth == 1

PatternSpace == 2 ^ PatternWidth

newRollingValueHasher(salt) ==
    [salt |-> salt, window |-> <<>>, crossedBoundary |-> FALSE]

windowHash(salt, w) ==
    salt + SumSeq([i \in 1..Len(w) |-> w[i] * (Len(w) - i + 1)])

hashByte(rv, b) ==
    The({[rv EXCEPT !.window = w,
                    !.crossedBoundary =
                        (windowHash(rv.salt, w) % PatternSpace = PatternSpace - 1)] :
            w \in {IF Len(rv.window) < WindowSize
                   THEN Append(rv.window, b)
                   ELSE Append(Tail(rv.window), b)}})

Reset(rv) == [rv EXCEPT !.window = <<>>, !.crossedBoundary = FALSE]

\* The serialisation of a chunk, reduced to one byte: the content hash a ref
\* feeds to the hasher.
RECURSIVE refByte(_)
refByte(seq) ==
    (Len(seq.items)
       + SumSeq([i \in 1..Len(seq.items) |->
                   i * (IF seq.isMeta THEN refByte(seq.items[i].ref) + seq.items[i].key
                        ELSE IF seq.kind = "Map"
                        THEN 3 * seq.items[i][KEY] + seq.items[i][VALUE]
                        ELSE seq.items[i])])) % 5

\* hashValueBytes of a number: its one byte.
hashValueBytes(v, rv) == hashByte(rv, v)

mapHashValueBytes(entry, rv) ==
    hashValueBytes(entry[VALUE], hashValueBytes(entry[KEY], rv))

metaHashValueBytes(tuple, rv) ==
    hashValueBytes(tuple.key, hashValueBytes(refByte(tuple.ref), rv))

\* ------------------------------------------------------------ binary search
\* search(n, f): the smallest i in 0..n-1 with f[i], else n, by bisection; f is
\* the predicate tabulated over 0..n-1.
RECURSIVE bisect(_, _, _)
bisect(lo, hi, f) ==
    IF lo >= hi THEN lo
    ELSE IF f[(lo + hi) \div 2] THEN bisect(lo, (lo + hi) \div 2, f)
    ELSE bisect((lo + hi) \div 2 + 1, hi, f)

search(n, f) == bisect(0, n, f)

\* ----------------------------------------------------------- sequence cursor
\* A cursor is the list of its frames, the cursor's own frame first and the
\* root's frame last: Tail(cur) is cur.parent.  idx counts from 0.
newFrame(sequence, idx) ==
    [sequence |-> sequence,
     idx |-> IF idx < 0 THEN Max(0, Len(sequence.items) + idx) ELSE idx]

length(f) == Len(f.sequence.items)

valid(f) == f.idx >= 0 /\ f.idx < length(f)

getCurrent(f) == f.sequence.items[f.idx + 1]

\* A sync that keeps the sequence the frame has.
syncStale(cur, j) == cur

\* sync(): frame j re-reads its sequence from its parent frame.
sync(cur, j) ==
    [cur EXCEPT ![j].sequence = getChildSequence(cur[j + 1].sequence, cur[j + 1].idx)]

\* An advanceToOffset that takes a meta frame past its end back to its first
\* tuple.
advanceToOffsetClampFirst(f, idx) ==
    The({[f |-> [f EXCEPT !.idx = i],
          off |-> IF i > 0 THEN cumulativeNumberOfLeaves(f.sequence, i - 1) ELSE 0] :
            i \in {IF f.sequence.isMeta /\ found = length(f) THEN 0 ELSE found :
                      found \in {search(length(f),
                                        [k \in 0..(length(f) - 1) |->
                                            idx < cumulativeNumberOfLeaves(f.sequence, k)])}}})

\* The result is [f, off]: the frame moved, and the number of leaves before
\* the item it moved to.
advanceToOffset(f, idx) ==
    The({[f |-> [f EXCEPT !.idx = i],
          off |-> IF i > 0 THEN cumulativeNumberOfLeaves(f.sequence, i - 1) ELSE 0] :
            i \in {IF f.sequence.isMeta /\ found = length(f) THEN length(f) - 1 ELSE found :
                      found \in {search(length(f),
                                        [k \in 0..(length(f) - 1) |->
                                            idx < cumulativeNumberOfLeaves(f.sequence, k)])}}})

RECURSIVE cursorAtIndexFrom(_, _, _)
cursorAtIndexFrom(cursor, childSeq, idx) ==
    The({IF childSeq.isMeta
         THEN cursorAtIndexFrom(<<a.f>> \o cursor,
                                getChildSequence(childSeq, a.f.idx), idx - a.off)
         ELSE <<a.f>> \o cursor :
            a \in {advanceToOffset(newFrame(childSeq, 0), idx)}})

newCursorAtIndex(seq, idx) == cursorAtIndexFrom(<<>>, seq, idx)

\* An advanceLocal that never steps past the last item.
advanceLocalStay(f, allowPastEnd) ==
    IF f.idx < length(f) - 1 THEN [f |-> [f EXCEPT !.idx = @ + 1], ok |-> TRUE]
    ELSE [f |-> f, ok |-> FALSE]

advanceLocal(f, allowPastEnd) ==
    IF f.idx = length(f) THEN [f |-> f, ok |-> FALSE]
    ELSE IF f.idx < length(f) - 1 THEN [f |-> [f EXCEPT !.idx = @ + 1], ok |-> TRUE]
    ELSE IF allowPastEnd THEN [f |-> [f EXCEPT !.idx = @ + 1], ok |-> FALSE]
    ELSE [f |-> f, ok |-> FALSE]

\* _advanceMaybeAllowPastEnd on frame j of cur.
RECURSIVE advanceMaybeAllowPastEnd(_, _, _)
advanceMaybeAllowPastEnd(cur, j, allowPastEnd) ==
    IF cur[j].idx = length(cur[j]) THEN [cur |-> cur, ok |-> FALSE]
    ELSE The({IF al.ok THEN [cur |-> [cur EXCEPT ![j] = al.f], ok |-> TRUE]
              ELSE IF j < Len(cur)
              THEN The({IF p.ok
                        THEN [cur |-> [sync(p.cur, j) EXCEPT ![j].idx = 0], ok |-> TRUE]
                        ELSE [cur |-> p.cur, ok |-> FALSE] :
                           p \in {advanceMaybeAllowPastEnd([cur EXCEPT ![j] = al.f],
                                                           j + 1, FALSE)}})
              ELSE [cur |-> [cur EXCEPT ![j] = al.f], ok |-> FALSE] :
                 al \in {advanceLocal(cur[j], allowPastEnd)}})

\* An advance that refuses to move a cursor that is not valid.
advanceGuarded(cur, j) ==
    IF valid(cur[j]) THEN advanceMaybeAllowPastEnd(cur, j, TRUE)
    ELSE [cur |-> cur, ok |-> FALSE]

advance(cur, j) == advanceMaybeAllowPastEnd(cur, j, TRUE)

\* A retreat that enters the previous chunk at its first item.
RECURSIVE retreatToFirst(_, _, _)
retreatToFirst(cur, j, allowBeforeStart) ==
    IF cur[j].idx > 0 THEN [cur |-> [cur EXCEPT ![j].idx = @ - 1], ok |-> TRUE]
    ELSE IF cur[j].idx = 0 - 1 THEN [cur |-> cur, ok |-> FALSE]
    ELSE The({IF p.ok
              THEN [cur |-> [sync(p.cur, j) EXCEPT ![j].idx = 0], ok |-> TRUE]
              ELSE [cur |-> IF allowBeforeStart
                            THEN [p.cur EXCEPT ![j].idx = @ - 1]
                            ELSE p.cur,
                    ok |-> FALSE] :
                 p \in {IF j < Len(cur)
                        THEN retreatToFirst(cur, j + 1, FALSE)
                        ELSE [cur |-> cur, ok |-> FALSE]}})

RECURSIVE retreatMaybeAllowBeforeStart(_, _, _)
retreatMaybeAllowBeforeStart(cur, j, allowBeforeStart) ==
    IF cur[j].idx > 0 THEN [cur |-> [cur EXCEPT ![j].idx = @ - 1], ok |-> TRUE]
    ELSE IF cur[j].idx = 0 - 1 THEN [cur |-> cur, ok |-> FALSE]
    ELSE The({IF p.ok
              THEN The({[cur |-> [c EXCEPT ![j].idx = length(c[j]) - 1], ok |-> TRUE] :
                           c \in {sync(p.cur, j)}})
              ELSE [cur |-> IF allowBeforeStart
                            THEN [p.cur EXCEPT ![j].idx = @ - 1]
                            ELSE p.cur,
                    ok |-> FALSE] :
                 p \in {IF j < Len(cur)
                        THEN retreatMaybeAllowBeforeStart(cur, j + 1, FALSE)
                        ELSE [cur |-> cur, ok |-> FALSE]}})

\* What _retreatMaybeAllowBeforeStart on frame j does before its first await:
\* the result is [cur, hop], hop the level that moved within its chunk, 0
\* when none did; the frames below it are synced after the awaits.
RECURSIVE retreatStart(_, _)
retreatStart(cur, j) ==
    IF cur[j].idx > 0 THEN [cur |-> [cur EXCEPT ![j].idx = @ - 1], hop |-> j]
    ELSE IF cur[j].idx = 0 - 1 THEN [cur |-> cur, hop |-> 0]
    ELSE IF j < Len(cur) THEN retreatStart(cur, j + 1)
    ELSE [cur |-> cur, hop |-> 0]

\* A retreat without the test for index -1.
retreatUnguarded(cur, j) ==
    IF cur[j].idx = 0 - 1 THEN [cur |-> [cur EXCEPT ![j].idx = @ - 1], ok |-> FALSE]
    ELSE retreatMaybeAllowBeforeStart(cur, j, TRUE)

retreat(cur, j) == retreatMaybeAllowBeforeStart(cur, j, TRUE)

\* ---------------------------------------------------------- chunk functions
\* A chunker buffers entries [count, item]; a chunk holds count copies of item.
sequenceEntry(count, item) == [count |-> count, item |-> item]

RECURSIVE expandEntries(_)
expandEntries(entries) ==
    IF entries = <<>> THEN <<>>
    ELSE [k \in 1..Head(entries).count |-> Head(entries).item]
            \o expandEntries(Tail(entries))

\* The false placeholder a map or set leaf chunk uses as the key of no item.
NoKey == 0

newListLeafChunkFn(items) ==
    [ok |-> TRUE, seq |-> newLeafSequence("List", items),
     key |-> Len(items), numLeaves |-> Len(items)]

\* A map leaf chunk function that takes the key of the first entry.
newMapLeafChunkFnFirstKey(items) ==
    [ok |-> TRUE, seq |-> newLeafSequence("Map", items),
     key |-> IF Len(items) > 0 THEN items[1][KEY] ELSE NoKey,
     numLeaves |-> Len(items)]

newMapLeafChunkFn(items) ==
    [ok |-> TRUE, seq |-> newLeafSequence("Map", items),
     key |-> IF Len(items) > 0 THEN Last(items)[KEY] ELSE NoKey,
     numLeaves |-> Len(items)]

newSetLeafChunkFn(items) ==
    [ok |-> TRUE, seq |-> newLeafSequence("Set", items),
     key |-> IF Len(items) > 0 THEN Last(items) ELSE NoKey,
     numLeaves |-> Len(items)]

newBlobLeafChunkFn(items) ==
    [ok |-> TRUE, seq |-> newLeafSequence("Blob", items),
     key |-> Len(items), numLeaves |-> Len(items)]

\* Fails (last is undefined) on no tuples.
newOrderedMetaSequenceChunkFn(kind, tuples) ==
    [ok |-> tuples # <<>>, seq |-> newMetaSequence(kind, tuples),
     key |-> IF tuples # <<>> THEN Last(tuples).key ELSE NoKey,
     numLeaves |-> SumSeq([i \in 1..Len(tuples) |-> tuples[i].numLeaves])]

\* Fails (the invariant nv === mt.numLeaves) on a tuple whose key is not its
\* number of leaves.
newIndexedMetaSequenceChunkFn(kind, tuples) ==
    The({[ok |-> \A i \in 1..Len(tuples) : tuples[i].key = tuples[i].numLeaves,
          seq |-> newMetaSequence(kind, tuples), key |-> sum, numLeaves |-> sum] :
            sum \in {SumSeq([i \in 1..Len(tuples) |-> tuples[i].key])}})

\* makeChunk of the chunker at level i (1 is the leaf chunker): the leaf chunk
\* function of the collection kind, and parentMakeChunk above it.
makeChunk(kind, i, entries) ==
    The({IF i = 1
         THEN (IF kind = "List" THEN newListLeafChunkFn(items)
               ELSE IF kind = "Map" THEN newMapLeafChunkFn(items)
               ELSE IF kind = "Blob" THEN newBlobLeafChunkFn(items)
               ELSE newSetLeafChunkFn(items))
         ELSE (IF kind \in {"List", "Blob"}
               THEN newIndexedMetaSequenceChunkFn(kind, items)
               ELSE newOrderedMetaSequenceChunkFn(kind, items)) :
            items \in {expandEntries(entries)}})

\* ---------------------------------------------------------- sequence chunker
\* A chunker and its parent chunkers are the levels lv[1], lv[2], ... of one
\* record; lv[i + 1] is lv[i].parent.  The chunker at level i works on frame i
\* of the one cursor cur it shares with its parents (createParent hands
\* sc.cur.parent itself to the parent chunker).  written is the set of chunks
\* given to WriteValue; failed records a panic or a thrown error, chunkFnThrew
\* that a chunk function threw, fatal that handleChunkBoundary found current
\* empty or that Done's check of a single tuple failed.  fed lists the entries
\* hashed into rv since its last Reset.
newLevel(i, hasCur) ==
    [current |-> <<>>,
     rv |-> newRollingValueHasher((i - 1) % 256),
     fed |-> <<>>,
     hasCur |-> hasCur,
     isLeaf |-> TRUE,
     done |-> FALSE,
     unwrittenCol |-> NoSeq]

\* A panic that goes unnoticed.
failNever(sc) == sc

fail(sc) == [sc EXCEPT !.failed = TRUE]

\* sc.hashValueBytes of the chunker at level i.
levelHashValueBytes(kind, i, item, rv) ==
    IF i > 1 THEN metaHashValueBytes(item, rv)
    ELSE IF kind = "Map" THEN mapHashValueBytes(item, rv)
    ELSE hashValueBytes(item, rv)

\* The == of Append: value equality on the numbers of a leaf chunker, identity
\* on meta tuples, and the tuple appended is always a fresh object.
sameItem(i, a, b) == i = 1 /\ a = b

atLastItem(f) == f.idx = length(f) - 1

currentEntry(f) == sequenceEntry(1, getCurrent(f))

RECURSIVE createParent(_, _)
RECURSIVE resume(_, _)
RECURSIVE resumeReplay(_, _, _)
RECURSIVE consumeLastEntry(_, _)
RECURSIVE handleChunkBoundary(_, _)
RECURSIVE chunkerAppend(_, _, _)

\* The result is [sc, crossed].
appendEntry(sc, i, entry) ==
    consumeLastEntry([sc EXCEPT !.lv[i].current = Append(@, entry)], i)

\* The result is [sc, seq, mt].  A chunk function that throws fails the run.
createSequence(sc, i, write) ==
    The({[sc  |-> [sc EXCEPT !.lv[i].current = <<>>,
                             !.failed = @ \/ ~c.ok,
                             !.chunkFnThrew = @ \/ ~c.ok,
                             !.written = IF write THEN @ \cup {c.seq} ELSE @,
                             !.lv[i].unwrittenCol = IF write THEN @ ELSE c.seq],
          seq |-> c.seq,
          mt  |-> newMetaTuple(c.seq, c.key, c.numLeaves)] :
            c \in {makeChunk(sc.kind, i, sc.lv[i].current)}})

createParent(sc, i) ==
    The({IF s.lv[i].unwrittenCol # NoSeq
         THEN [s EXCEPT !.written = @ \cup {s.lv[i].unwrittenCol},
                        !.lv[i].unwrittenCol = NoSeq]
         ELSE s :
            s \in {[r EXCEPT !.lv[i + 1].isLeaf = FALSE] :
                      r \in {IF sc.lv[i].hasCur /\ Len(sc.cur) > i
                             THEN resume([sc EXCEPT !.lv = Append(@, newLevel(i + 1, TRUE))],
                                         i + 1)
                             ELSE [sc EXCEPT !.lv = Append(@, newLevel(i + 1, FALSE))]}}})

\* Walk backwards to the start of the existing chunk.
RECURSIVE walkBack(_, _)
walkBack(cur, i) ==
    IF cur[i].idx > 0
    THEN The({IF r.ok THEN walkBack(r.cur, i) ELSE r.cur :
                 r \in {retreatMaybeAllowBeforeStart(cur, i, FALSE)}})
    ELSE cur

\* for ; sc.cur.idx < idx; sc.cur.advance() { appendEntry(currentEntry()) }
resumeReplay(sc, i, idx) ==
    IF sc.failed \/ ~(sc.cur[i].idx < idx) THEN sc
    ELSE IF ~valid(sc.cur[i]) THEN fail(sc)
    ELSE resumeReplay([appendEntry(sc, i, currentEntry(sc.cur[i])).sc
                          EXCEPT !.cur = advance(@, i).cur], i, idx)

resume(sc, i) ==
    The({resumeReplay([s EXCEPT !.cur = walkBack(@, i)], i, s.cur[i].idx) :
            s \in {IF Len(sc.cur) > i /\ Len(sc.lv) = i THEN createParent(sc, i) ELSE sc}})

consumeLastEntry(sc, i) ==
    The({IF rv.crossedBoundary
         THEN [sc |-> handleChunkBoundary(
                         [sc EXCEPT !.lv[i].rv = rv,
                                    !.lv[i].fed = Append(@, Last(sc.lv[i].current))], i),
               crossed |-> TRUE]
         ELSE [sc |-> [sc EXCEPT !.lv[i].rv = rv,
                                 !.lv[i].fed = Append(@, Last(sc.lv[i].current))],
               crossed |-> FALSE] :
            rv \in {levelHashValueBytes(sc.kind, i, Last(sc.lv[i].current).item,
                        IF Last(sc.lv[i].current).count > 1
                        THEN levelHashValueBytes(sc.kind, i, Last(sc.lv[i].current).count,
                                                 sc.lv[i].rv)
                        ELSE sc.lv[i].rv)}})

\* A handleChunkBoundary that hands the tuple to the parent without writing
\* the chunk.
handleChunkBoundaryUnwritten(sc, i) ==
    IF sc.failed THEN sc
    ELSE IF sc.lv[i].current = <<>> THEN [fail(sc) EXCEPT !.fatal = TRUE]
    ELSE The({chunkerAppend(c.sc, i + 1, c.mt) :
                 c \in {createSequence(IF Len(sc.lv) = i
                                       THEN createParent([sc EXCEPT !.lv[i].rv = Reset(@),
                                                                    !.lv[i].fed = <<>>], i)
                                       ELSE [sc EXCEPT !.lv[i].rv = Reset(@),
                                                       !.lv[i].fed = <<>>],
                                       i, FALSE)}})

handleChunkBoundary(sc, i) ==
    IF sc.failed THEN sc
    ELSE IF sc.lv[i].current = <<>> THEN [fail(sc) EXCEPT !.fatal = TRUE]
    ELSE The({chunkerAppend(c.sc, i + 1, c.mt) :
                 c \in {createSequence(IF Len(sc.lv) = i
                                       THEN createParent([sc EXCEPT !.lv[i].rv = Reset(@),
                                                                    !.lv[i].fed = <<>>], i)
                                       ELSE [sc EXCEPT !.lv[i].rv = Reset(@),
                                                       !.lv[i].fed = <<>>],
                                       i, TRUE)}})

\* Append
chunkerAppend(sc, i, item) ==
    IF sc.failed THEN sc
    ELSE IF sc.kind # "List" THEN appendEntry(sc, i, sequenceEntry(1, item)).sc
    ELSE IF sc.lv[i].current = <<>>
    THEN [sc EXCEPT !.lv[i].current = Append(@, sequenceEntry(1, item))]
    ELSE IF sameItem(i, Last(sc.lv[i].current).item, item)
    THEN [sc EXCEPT !.lv[i].current[Len(sc.lv[i].current)].count = @ + 1]
    ELSE [consumeLastEntry(sc, i).sc EXCEPT
             !.lv[i].current = Append(@, sequenceEntry(1, item))]

Skip(sc) == IF sc.failed THEN sc ELSE [sc EXCEPT !.cur = advance(sc.cur, 1).cur]

\* A nil cursor is the empty list of frames.
newSequenceChunker(kind, cur) ==
    IF cur # <<>>
    THEN resume([kind |-> kind, lv |-> <<newLevel(1, TRUE)>>, cur |-> cur,
                 written |-> {}, failed |-> FALSE, chunkFnThrew |-> FALSE, fatal |-> FALSE], 1)
    ELSE [kind |-> kind, lv |-> <<newLevel(1, FALSE)>>, cur |-> cur,
          written |-> {}, failed |-> FALSE, chunkFnThrew |-> FALSE, fatal |-> FALSE]

\* An anyPending that always sees pending entries.
anyPendingAll(sc, i) == TRUE

RECURSIVE anyPending(_, _)
anyPending(sc, i) ==
    IF sc.lv[i].current # <<>> THEN TRUE
    ELSE IF Len(sc.lv) > i THEN anyPending(sc, i + 1)
    ELSE FALSE

RECURSIVE finalizeLoop(_, _)
finalizeLoop(sc, i) ==
    IF sc.failed \/ ~valid(sc.cur[i]) THEN sc
    ELSE The({IF a.crossed /\ atLastItem(a.sc.cur[i]) THEN a.sc
              ELSE finalizeLoop([a.sc EXCEPT !.cur = advance(@, i).cur], i) :
                 a \in {appendEntry(sc, i, currentEntry(sc.cur[i]))}})

finalizeCursor(sc, i) ==
    The({IF ~s.failed /\ Len(s.cur) > i
         THEN [s EXCEPT !.cur = advance(@, i + 1).cur]
         ELSE s :
            s \in {finalizeLoop(sc, i)}})

\* A case (3) of Done that returns the child of the single tuple as it is.
canonicalRootChild(mt) == mt.ref

\* Case (3) of Done: walk down single-tuple meta sequences.
RECURSIVE canonicalRoot(_)
canonicalRoot(mt) ==
    IF ~mt.ref.isMeta \/ Len(mt.ref.items) > 1 THEN mt.ref
    ELSE canonicalRoot(mt.ref.items[1])

\* The result is [sc, seq].
RECURSIVE Done(_, _)
Done(sc, i) ==
    IF sc.failed \/ sc.lv[i].done THEN [sc |-> fail(sc), seq |-> NoSeq]
    ELSE The({IF s.failed THEN [sc |-> s, seq |-> NoSeq]
              ELSE IF Len(s.lv) > i /\ anyPending(s, i + 1)
              THEN Done(IF s.lv[i].current # <<>> THEN handleChunkBoundary(s, i) ELSE s,
                        i + 1)
              ELSE IF s.lv[i].isLeaf \/ Len(s.lv[i].current) > 1
              THEN The({[sc |-> c.sc, seq |-> IF c.sc.failed THEN NoSeq ELSE c.seq] :
                           c \in {createSequence(s, i, FALSE)}})
              ELSE IF Len(s.lv[i].current) # 1
              THEN [sc |-> [fail(s) EXCEPT !.fatal = TRUE], seq |-> NoSeq]
              ELSE [sc |-> s, seq |-> canonicalRoot(s.lv[i].current[1].item)] :
                 s \in {IF sc.lv[i].hasCur
                        THEN finalizeCursor([sc EXCEPT !.lv[i].done = TRUE], i)
                        ELSE [sc EXCEPT !.lv[i].done = TRUE]}})

\* sequenceCursor.compare on frame j: the parents first, then the indexes.
RECURSIVE cursorCompare(_, _, _)
cursorCompare(cur, other, j) ==
    The({IF p # 0 THEN p ELSE cur[j].idx - other[j].idx :
            p \in {IF j < Len(cur) THEN cursorCompare(cur, other, j + 1) ELSE 0}})

\* Case (2) of advanceTo: for sc.cur.compare(next) > 0 { next.advance() }.
\* The result is [cur, ok]: next as the loop leaves it, and ok FALSE when
\* next cannot move and the loop never ends.
RECURSIVE advanceNext(_, _, _)
advanceNext(cur, next, j) ==
    IF ~(cursorCompare(cur, next, j) > 0) THEN [cur |-> next, ok |-> TRUE]
    ELSE The({IF a.cur = next THEN [cur |-> next, ok |-> FALSE]
              ELSE advanceNext(cur, a.cur, j) :
                 a \in {advance(next, j)}})

\* Cases (3) and (4) of advanceTo: consume the items of sc.cur up to next or
\* up to a boundary on the last item of an old chunk.  The result is
\* [sc, reachedNext].
RECURSIVE advanceConsume(_, _, _)
advanceConsume(sc, i, next) ==
    IF sc.failed \/ ~(cursorCompare(sc.cur, next, i) < 0)
    THEN [sc |-> sc, reachedNext |-> TRUE]
    ELSE IF ~valid(sc.cur[i]) THEN [sc |-> fail(sc), reachedNext |-> TRUE]
    ELSE The({IF a.sc.failed THEN [sc |-> a.sc, reachedNext |-> TRUE]
              ELSE IF a.crossed /\ atLastItem(a.sc.cur[i])
              THEN (IF Len(a.sc.cur) > i
                    THEN [sc |-> [a.sc EXCEPT
                                     !.cur = advanceMaybeAllowPastEnd(@, i + 1, FALSE).cur],
                          reachedNext |-> ~(cursorCompare(a.sc.cur, next, i + 1) < 0)]
                    ELSE [sc |-> a.sc, reachedNext |-> TRUE])
              ELSE advanceConsume([a.sc EXCEPT !.cur = advance(@, i).cur], i, next) :
                 a \in {appendEntry(sc, i, currentEntry(sc.cur[i]))}})

\* advanceTo of the chunker at level i.  next is one cursor for all levels
\* (next.parent is the frame above), and sc.cur = next of every level makes it
\* the chunker's cursor.
RECURSIVE advanceTo(_, _, _)
advanceTo(sc, i, next) ==
    IF sc.failed THEN sc
    ELSE The({IF ~n.ok THEN fail(sc)
              ELSE The({The({IF c.reachedNext \/ u.failed THEN u ELSE resume(u, i) :
                                u \in {IF c.sc.failed THEN c.sc
                                       ELSE IF Len(c.sc.lv) > i /\ Len(n.cur) > i
                                       THEN advanceTo(c.sc, i + 1, n.cur)
                                       ELSE [c.sc EXCEPT !.cur = n.cur]}}) :
                           c \in {advanceConsume(sc, i, n.cur)}}) :
                 n \in {advanceNext(sc.cur, next, i)}})

RECURSIVE appendAll(_, _)
appendAll(sc, items) ==
    IF items = <<>> THEN sc
    ELSE appendAll(chunkerAppend(sc, 1, Head(items)), Tail(items))

RECURSIVE skipN(_, _)
skipN(sc, n) == IF n = 0 THEN sc ELSE skipN(Skip(sc), n - 1)

\* chunkSequence: the result is [ok, seq, sc]; ok is FALSE when the run threw.
chunkSequence(kind, cursor, insert, remove) ==
    The({[ok |-> ~d.sc.failed, seq |-> d.seq, sc |-> d.sc] :
            d \in {Done(skipN(appendAll(newSequenceChunker(kind, cursor), insert), remove), 1)}})

chunkSequenceSync(kind, items) == chunkSequence(kind, <<>>, items, 0)

\* -------------------------------------------------------------- collections
\* A collection object is [id, sequence]; id is the object's identity.  Two
\* ids are enough: a call deals with its receiver and at most one new object.
newCollection(id, sequence) == [id |-> id, sequence |-> sequence]

\* A fromSequence that assigns to the receiver instead of making an object.
fromSequenceInPlace(this, s) == [this EXCEPT !.sequence = s]

\* fromSequence: a new object (Object.create) wrapping s; this is the receiver
\* of the call that makes it.
fromSequence(this, s) == newCollection(1 - this.id, s)

\* What a method call leaves behind: ok is FALSE when it threw, ret is the
\* collection it resolved to, value a plain result, ran whether a chunker ran.
callResult(ok, ret, value, ran) == [ok |-> ok, ret |-> ret, value |-> value, ran |-> ran]

spliceResult(this, r) ==
    callResult(r.ok, IF r.ok THEN fromSequence(this, r.seq) ELSE this, 0, TRUE)

\* ------------------------------------------------------------------- List
\* new List(values)
newList(values) == chunkSequenceSync("List", values)

\* get(idx): ok is FALSE when an invariant throws.
listGet(this, idx) ==
    IF ~(idx >= 0 /\ idx < numLeaves(this.sequence))
    THEN callResult(FALSE, this, 0, FALSE)
    ELSE The({IF valid(cursor[1])
              THEN callResult(TRUE, this, getCurrent(cursor[1]), FALSE)
              ELSE callResult(FALSE, this, 0, FALSE) :
                 cursor \in {newCursorAtIndex(this.sequence, idx)}})

\* range(start, end) of a sequence.  The result is [ok, items]: ok is FALSE
\* when an invariant throws.  On a meta sequence metaRange is the loop from
\* tuple i (counted from 0) on, acc what the children before it gave.
RECURSIVE range(_, _, _)
RECURSIVE metaRange(_, _, _, _, _)
metaRange(seq, i, start, end, acc) ==
    IF ~(i < Len(seq.items) /\ end > start) THEN [ok |-> TRUE, items |-> acc]
    ELSE IF ~(start < cumulativeNumberOfLeaves(seq, i))
    THEN metaRange(seq, i + 1, start, end, acc)
    ELSE The({The({The({IF ~r.ok THEN r
                        ELSE metaRange(seq, i + 1, start + (childEnd - (start - seqStart)),
                                       end, acc \o r.items) :
                           r \in {range(getChildSequence(seq, i), start - seqStart,
                                        childEnd)}}) :
                      childEnd \in {Min(seq.items[i + 1].key, end - seqStart)}}) :
                 seqStart \in {cumulativeNumberOfLeaves(seq, i) - seq.items[i + 1].key}})

range(seq, start, end) ==
    IF seq.isMeta
    THEN (IF start >= 0 /\ end >= 0 /\ end >= start
          THEN metaRange(seq, 0, start, end, <<>>)
          ELSE [ok |-> FALSE, items |-> <<>>])
    ELSE IF start >= 0 /\ end >= 0 /\ end <= Len(seq.items)
    THEN [ok |-> TRUE, items |-> SubSeq(seq.items, start + 1, end)]
    ELSE [ok |-> FALSE, items |-> <<>>]

\* A clampIndex that takes a negative index for 0.
clampIndexToZero(idx, len) ==
    IF idx > len THEN len ELSE IF idx < 0 THEN 0 ELSE idx

clampIndex(idx, len) ==
    IF idx > len THEN len ELSE IF idx < 0 THEN Max(0, len + idx) ELSE idx

\* toJS(start, end)
listToJS(this, start, end) ==
    The({IF s >= e THEN callResult(TRUE, this, <<>>, FALSE)
         ELSE The({callResult(r.ok, this, r.items, FALSE) :
                     r \in {range(this.sequence, s, e)}}) :
            s \in {clampIndex(start, numLeaves(this.sequence))},
            e \in {clampIndex(end, numLeaves(this.sequence))}})

listSplice(this, idx, deleteCount, insert) ==
    spliceResult(this, chunkSequence("List", newCursorAtIndex(this.sequence, idx),
                                     insert, deleteCount))

listInsert(this, idx, values) == listSplice(this, idx, 0, values)

listRemove(this, idx) == listSplice(this, idx, 1, <<>>)

listAppend(this, values) == listSplice(this, numLeaves(this.sequence), 0, values)

\* ------------------------------------------------------------ ordered cursor
\* null / undefined where a key is expected.
Null == 0

\* A seekTo that never falls back to the last position.
seekToNoFallback(f, key, lastPositionIfNotfound) ==
    The({[f |-> [f EXCEPT !.idx = i], ok |-> i < length(f), threw |-> FALSE] :
            i \in {search(length(f), [k \in 0..(length(f) - 1) |->
                                         compare(getKey(f.sequence, k), key) >= 0])}})

\* The result is [f, ok, threw]: ok is what seekTo returns, threw whether its
\* invariant failed.
seekTo(f, key, lastPositionIfNotfound) ==
    The({IF i = length(f) /\ lastPositionIfNotfound
         THEN (IF i > 0
               THEN [f |-> [f EXCEPT !.idx = i - 1], ok |-> i - 1 < length(f), threw |-> FALSE]
               ELSE [f |-> [f EXCEPT !.idx = i], ok |-> FALSE, threw |-> TRUE])
         ELSE [f |-> [f EXCEPT !.idx = i], ok |-> i < length(f), threw |-> FALSE] :
            i \in {search(length(f), [k \in 0..(length(f) - 1) |->
                                         compare(getKey(f.sequence, k), key) >= 0])}})

\* The result is [cur, threw].
RECURSIVE cursorAtKeyFrom(_, _, _, _, _)
cursorAtKeyFrom(cursor, childSeq, key, forInsertion, last) ==
    The({IF sk.threw THEN [cur |-> <<sk.f>> \o cursor, threw |-> TRUE]
         ELSE IF ~sk.ok THEN [cur |-> <<sk.f>> \o cursor, threw |-> FALSE]
         ELSE IF childSeq.isMeta
         THEN cursorAtKeyFrom(<<sk.f>> \o cursor, getChildSequence(childSeq, sk.f.idx), key,
                              forInsertion, last)
         ELSE [cur |-> <<sk.f>> \o cursor, threw |-> FALSE] :
            sk \in {IF key # Null
                    THEN seekTo(newFrame(childSeq, IF last THEN 0 - 1 ELSE 0), key,
                                forInsertion /\ childSeq.isMeta)
                    ELSE [f |-> newFrame(childSeq, IF last THEN 0 - 1 ELSE 0),
                          ok |-> TRUE, threw |-> FALSE]}})

newCursorAtKey(seq, key, forInsertion, last) ==
    cursorAtKeyFrom(<<>>, seq, key, forInsertion, last)

\* A newCursorAtValue that never asks for an insertion point.
newCursorAtValueLookup(seq, val, forInsertion, last) ==
    newCursorAtKey(seq, val, FALSE, last)

newCursorAtValue(seq, val, forInsertion, last) ==
    newCursorAtKey(seq, val, forInsertion, last)

\* The test of a found key without its comparison of keys.
cursorValid(c, key) == ~c.threw /\ valid(c.cur[1])

\* cursor.valid && equals(cursor.getCurrentKey().value(), key)
cursorOnKey(c, key) ==
    ~c.threw /\ valid(c.cur[1]) /\ equals(getKey(c.cur[1].sequence, c.cur[1].idx), key)

\* -------------------------------------------------------------------- Map
compareKeys(v1, v2) == compare(v1[KEY], v2[KEY])

compareWith(isMap, a, b) == IF isMap THEN compareKeys(a, b) ELSE compare(a, b)

\* A sort that leaves the array as it is.
unsorted(elems, isMap) == elems

\* Array.prototype.sort with a comparator: elements that compare equal keep
\* their order.
RECURSIVE insertSorted(_, _, _)
insertSorted(sorted, e, isMap) ==
    IF sorted = <<>> THEN <<e>>
    ELSE IF compareWith(isMap, Last(sorted), e) <= 0 THEN Append(sorted, e)
    ELSE Append(insertSorted(SubSeq(sorted, 1, Len(sorted) - 1), e, isMap), Last(sorted))

RECURSIVE sort(_, _)
sort(elems, isMap) ==
    IF elems = <<>> THEN <<>>
    ELSE insertSorted(sort(SubSeq(elems, 1, Len(elems) - 1), isMap), Last(elems), isMap)

\* A removal of duplicates that keeps the first element of each run.
keepFirstOfOrdered(elems, isMap) ==
    LET firsts == {i \in 1..Len(elems) :
                     i = 1 \/ compareWith(isMap, elems[i - 1], elems[i]) # 0}
    IN  [n \in 1..Cardinality(firsts) |->
            elems[CHOOSE i \in firsts : Cardinality({j \in firsts : j < i}) = n - 1]]

\* unique[i] = elem, with i moved on only when elem differs from the last one.
RECURSIVE removeDuplicateFromOrdered(_, _)
removeDuplicateFromOrdered(elems, isMap) ==
    IF elems = <<>> THEN <<>>
    ELSE The({IF Len(elems) = 1
                 \/ compareWith(isMap, elems[Len(elems) - 1], Last(elems)) # 0
              THEN Append(unique, Last(elems))
              ELSE [unique EXCEPT ![Len(unique)] = Last(elems)] :
                 unique \in {removeDuplicateFromOrdered(SubSeq(elems, 1, Len(elems) - 1),
                                                        isMap)}})

buildMapData(kvs) == removeDuplicateFromOrdered(sort(kvs, TRUE), TRUE)

newMap(kvs) == chunkSequenceSync("Map", buildMapData(kvs))

mapHas(this, key) ==
    callResult(TRUE, this, cursorOnKey(newCursorAtValue(this.sequence, key, FALSE, FALSE), key),
               FALSE)

\* A _firstOrLast that always starts at the first item.
firstOrLastFromStart(this, last) ==
    The({callResult(TRUE, this,
                    IF valid(c.cur[1]) THEN getCurrent(c.cur[1])
                    ELSE IF this.sequence.kind = "Map" THEN "undefined" ELSE "null",
                    FALSE) :
            c \in {newCursorAtKey(this.sequence, Null, FALSE, FALSE)}})

\* _firstOrLast(last) of a Map and of a Set: the one returns undefined, the
\* other null, when the cursor is not valid.
firstOrLast(this, last) ==
    The({callResult(TRUE, this,
                    IF valid(c.cur[1]) THEN getCurrent(c.cur[1])
                    ELSE IF this.sequence.kind = "Map" THEN "undefined" ELSE "null",
                    FALSE) :
            c \in {newCursorAtKey(this.sequence, Null, FALSE, last)}})

\* undefined is Null.
mapGet(this, key) ==
    The({IF ~valid(c.cur[1]) THEN callResult(TRUE, this, Null, FALSE)
         ELSE IF equals(getCurrent(c.cur[1])[KEY], key)
         THEN callResult(TRUE, this, getCurrent(c.cur[1])[VALUE], FALSE)
         ELSE callResult(TRUE, this, Null, FALSE) :
            c \in {newCursorAtValue(this.sequence, key, FALSE, FALSE)}})

mapSplice(this, cursor, insert, remove) ==
    spliceResult(this, chunkSequence("Map", cursor, insert, remove))

\* A set that splices even when the key already has the value.
mapSetAlways(this, key, value) ==
    The({mapSplice(this, c.cur, << <<key, value>> >>, IF cursorOnKey(c, key) THEN 1 ELSE 0) :
            c \in {newCursorAtValue(this.sequence, key, TRUE, FALSE)}})

mapSet(this, key, value) ==
    The({IF c.threw THEN callResult(FALSE, this, 0, FALSE)
         ELSE IF cursorOnKey(c, key) /\ equals(getCurrent(c.cur[1])[VALUE], value)
         THEN callResult(TRUE, this, 0, FALSE)
         ELSE mapSplice(this, c.cur, << <<key, value>> >>,
                        IF cursorOnKey(c, key) THEN 1 ELSE 0) :
            c \in {newCursorAtValue(this.sequence, key, TRUE, FALSE)}})

mapDelete(this, key) ==
    The({IF cursorOnKey(c, key) THEN mapSplice(this, c.cur, <<>>, 1)
         ELSE callResult(TRUE, this, 0, FALSE) :
            c \in {newCursorAtValue(this.sequence, key, FALSE, FALSE)}})

size(this) == numLeaves(this.sequence)

\* -------------------------------------------------------------------- Set
buildSetData(values) == removeDuplicateFromOrdered(sort(values, FALSE), FALSE)

newSet(values) == chunkSequenceSync("Set", buildSetData(values))

setHas(this, key) ==
    callResult(TRUE, this, cursorOnKey(newCursorAtValue(this.sequence, key, FALSE, FALSE), key),
               FALSE)

setSplice(this, cursor, insert, remove) ==
    spliceResult(this, chunkSequence("Set", cursor, insert, remove))

setAdd(this, value) ==
    The({IF c.threw THEN callResult(FALSE, this, 0, FALSE)
         ELSE IF cursorOnKey(c, value) THEN callResult(TRUE, this, 0, FALSE)
         ELSE setSplice(this, c.cur, <<value>>, 0) :
            c \in {newCursorAtValue(this.sequence, value, TRUE, FALSE)}})

setDelete(this, value) ==
    The({IF cursorOnKey(c, value) THEN setSplice(this, c.cur, <<>>, 1)
         ELSE callResult(TRUE, this, 0, FALSE) :
            c \in {newCursorAtValue(this.sequence, value, FALSE, FALSE)}})

\* ---------------------------------------------------------------------- blob
\* new Blob(bytes): a chunker without a cursor is given every byte and done.
newBlob(bytes) == chunkSequenceSync("Blob", bytes)

\* An advanceChunk that, failing, leaves every frame past its end.
advanceChunkAllPastEnd(cur) ==
    The({IF m.ok THEN m
         ELSE [m EXCEPT !.cur = [j \in 1..Len(cur) |->
                                    [m.cur[j] EXCEPT !.idx = length(m.cur[j])]]] :
            m \in {advanceMaybeAllowPastEnd([cur EXCEPT ![1].idx = length(cur[1]) - 1],
                                            1, TRUE)}})

advanceChunk(cur) ==
    advanceMaybeAllowPastEnd([cur EXCEPT ![1].idx = length(cur[1]) - 1], 1, TRUE)

\* A BlobReader.  _cursor is a promise in the code; cursor is the cursor it
\* resolves to.  pending is the continuation of the call whose promise has
\* not settled, with the locals it captured; NoPending when there is none.
NoPending == [op |-> "none"]

newBlobReader(sequence) ==
    [type |-> "reader", sequence |-> sequence, cursor |-> newCursorAtIndex(sequence, 0),
     pos |-> 0, lock |-> "", pending |-> NoPending]

\* A read() that takes the lock before it tests it.
blobReadLockFirst(this) ==
    IF this.lock # "" THEN callResult(FALSE, [this EXCEPT !.lock = "read"], "busy", FALSE)
    ELSE callResult(TRUE, [this EXCEPT !.lock = "read", !.pending = [op |-> "read"]],
                    "pending", FALSE)

\* read(), up to the promise it returns: the invariant on _lock throws before
\* anything is assigned.
blobRead(this) ==
    IF this.lock # "" THEN callResult(FALSE, this, "busy", FALSE)
    ELSE callResult(TRUE, [this EXCEPT !.lock = "read", !.pending = [op |-> "read"]],
                    "pending", FALSE)

\* _readCur: the rest of the current chunk, and the cursor moved to the next.
readCur(this) ==
    The({callResult(TRUE,
                    [this EXCEPT !.cursor = advanceChunk(@).cur, !.pos = @ + Len(arr)],
                    [done |-> FALSE, value |-> arr], FALSE) :
            arr \in {SubSeq(this.cursor[1].sequence.items, this.cursor[1].idx + 1,
                            length(this.cursor[1]))}})

\* The continuations of read(): the result, then the lock released.
blobReadSettled(this) ==
    The({callResult(TRUE, [r.ret EXCEPT !.lock = "", !.pending = NoPending], r.value, FALSE) :
            r \in {IF ~valid(this.cursor[1])
                   THEN callResult(TRUE, this, [done |-> TRUE, value |-> <<>>], FALSE)
                   ELSE readCur(this)}})

\* The absolute position of seek(offset, whence).
seekAbs(this, offset, whence) ==
    IF whence = 0 THEN offset
    ELSE IF whence = 1 THEN this.pos + offset
    ELSE numLeaves(this.sequence) + offset

\* seek(offset, whence), up to the promise it returns.  The lock is taken
\* before whence and abs are checked, and a throw there leaves it taken.
blobSeek(this, offset, whence) ==
    IF this.lock # "" THEN callResult(FALSE, this, "busy", FALSE)
    ELSE IF whence \notin {0, 1, 2}
    THEN callResult(FALSE, [this EXCEPT !.lock = "seek"], "invalid whence", FALSE)
    ELSE IF seekAbs(this, offset, whence) < 0
    THEN callResult(FALSE, [this EXCEPT !.lock = "seek"], "negative position", FALSE)
    ELSE callResult(TRUE,
                    [this EXCEPT !.lock = "seek",
                                 !.cursor = newCursorAtIndex(this.sequence,
                                                             seekAbs(this, offset, whence)),
                                 !.pending = [op |-> "seek", offset |-> offset,
                                              whence |-> whence,
                                              abs |-> seekAbs(this, offset, whence)]],
                    "pending", FALSE)

\* The continuation of seek().
blobSeekSettled(this) ==
    callResult(TRUE,
               [this EXCEPT !.pos = this.pending.abs, !.lock = "", !.pending = NoPending],
               this.pending.abs, FALSE)

\* ------------------------------------------------------------------ writers
\* A ListWriter (kind "List") or a BlobWriter (kind "Blob"): _state, the
\* chunker without a cursor it feeds, and _list / _blob, the promise close()
\* stores.  wrote is what has been written, for the bounds of the model.
NoResult == [settled |-> FALSE]

newWriter(kind) ==
    [type |-> "writer", kind |-> kind, state |-> "writable",
     chunker |-> newSequenceChunker(kind, <<>>), result |-> NoResult, wrote |-> <<>>]

\* write(item) of a ListWriter, write(chunk) of a BlobWriter: items is the
\* one item or the bytes of the chunk.
writerWrite(this, items) ==
    IF this.state # "writable" THEN callResult(FALSE, this, "Invalid usage", FALSE)
    ELSE callResult(TRUE,
                    [this EXCEPT !.chunker = appendAll(@, items), !.wrote = @ \o items],
                    0, FALSE)

\* A close() that forgets to change _state.
writerCloseStaysWritable(this) ==
    IF this.state # "writable" THEN callResult(FALSE, this, "Invalid usage", FALSE)
    ELSE The({callResult(TRUE,
                         [this EXCEPT !.chunker = d.sc,
                                      !.result = [settled |-> TRUE, ok |-> ~d.sc.failed,
                                                  col |-> newCollection(0, d.seq)]],
                         0, TRUE) :
                 d \in {Done(this.chunker, 1)}})

\* close(): the promise of the collection made of what done() returns.
writerClose(this) ==
    IF this.state # "writable" THEN callResult(FALSE, this, "Invalid usage", FALSE)
    ELSE The({callResult(TRUE,
                         [this EXCEPT !.chunker = d.sc,
                                      !.result = [settled |-> TRUE, ok |-> ~d.sc.failed,
                                                  col |-> newCollection(0, d.seq)],
                                      !.state = "closed"],
                         0, TRUE) :
                 d \in {Done(this.chunker, 1)}})

\* The getter list / blob.
writerGet(this) ==
    IF this.state # "closed" THEN callResult(FALSE, this, "Invalid usage", FALSE)
    ELSE callResult(TRUE, this, this.result, FALSE)

\* ----------------------------------------------------------------- iteration
\* cursor.iter with a callback that never stops it: the items visited.
RECURSIVE iter(_)
iter(cur) ==
    IF ~valid(cur[1]) THEN <<>>
    ELSE <<getCurrent(cur[1])>> \o iter(advance(cur, 1).cur)

\* ------------------------------------------------------------ ordered diff
\* An equality of meta tuples by key instead of by ref.
keyEqualsFn(fa, fb) ==
    IF fa.sequence.isMeta THEN getCurrent(fa).key = getCurrent(fb).key
    ELSE equals(getCurrent(fa), getCurrent(fb))

\* getEqualsFn of the sequence under frame fa, applied to both positions: meta
\* tuples are equal when their refs are, leaf items when they are equal values.
getEqualsFn(fa, fb) ==
    IF fa.sequence.isMeta THEN getCurrent(fa).ref = getCurrent(fb).ref
    ELSE equals(getCurrent(fa), getCurrent(fb))

\* After frame j moved, the frames below are loaded at their first item.
RECURSIVE syncDown(_, _)
syncDown(cur, j) ==
    IF j = 0 THEN cur
    ELSE syncDown([sync(cur, j) EXCEPT ![j].idx = 0], j - 1)

\* The highest level at which both cursors stand on tuples with one ref;
\* 1 when no meta level does.
commonLevel(l, c) ==
    The({IF shared = {} THEN 1 ELSE CHOOSE j \in shared : \A k \in shared : k <= j :
            shared \in {{j \in 2..Min(Len(l), Len(c)) : getEqualsFn(l[j], c[j])}}})

\* Leave the subtree under frame j; past the end when nothing follows it.
skipSubtree(cur, j) ==
    IF j = 1 THEN advance(cur, 1).cur
    ELSE The({IF r.ok THEN syncDown(r.cur, j - 1)
              ELSE [cur EXCEPT ![1].idx = length(cur[1])] :
                 r \in {advanceMaybeAllowPastEnd(cur, j, FALSE)}})

currentKey(cur) == getKey(cur[1].sequence, cur[1].idx)

RECURSIVE diffWalk(_, _, _)
diffWalk(l, c, acc) ==
    IF ~valid(l[1]) /\ ~valid(c[1]) THEN acc
    ELSE IF ~valid(l[1])
    THEN diffWalk(l, advance(c, 1).cur, [acc EXCEPT !.added = Append(@, currentKey(c))])
    ELSE IF ~valid(c[1])
    THEN diffWalk(advance(l, 1).cur, c, [acc EXCEPT !.removed = Append(@, currentKey(l))])
    ELSE IF getEqualsFn(l[1], c[1])
    THEN The({diffWalk(skipSubtree(l, j), skipSubtree(c, j), acc) :
                 j \in {commonLevel(l, c)}})
    ELSE IF compare(currentKey(l), currentKey(c)) = 0
    THEN diffWalk(advance(l, 1).cur, advance(c, 1).cur,
                  [acc EXCEPT !.modified = Append(@, currentKey(c))])
    ELSE IF compare(currentKey(l), currentKey(c)) < 0
    THEN diffWalk(advance(l, 1).cur, c, [acc EXCEPT !.removed = Append(@, currentKey(l))])
    ELSE diffWalk(l, advance(c, 1).cur, [acc EXCEPT !.added = Append(@, currentKey(c))])

\* diff(last, current): [added, removed, modified]
diff(last, current) ==
    diffWalk(newCursorAtKey(last, Null, FALSE, FALSE).cur,
             newCursorAtKey(current, Null, FALSE, FALSE).cur,
             [added |-> <<>>, removed |-> <<>>, modified |-> <<>>])

mapDiff(this, from) == callResult(TRUE, this, diff(from.sequence, this.sequence), FALSE)

\* ---------------------------------------------------------- state machine
\* col is the collection the program holds; last describes the last call:
\* the method, its arguments, its receiver, whether it returned (ok) or
\* threw, the collection and the plain value it returned, and whether a
\* chunker ran.  obj is the stateful object the program holds on the
\* collection: a cursor, a reader, a writer, an iterator or a running forEach;
\* NoObj while it holds none.
VARIABLES col, last, obj

vars == <<col, last, obj>>

NoObj == [type |-> "none"]

Keys == 1..MaxKey

Entries == {<<k, v>> : k \in Keys, v \in Values}

Inserts == SeqsOf(Values, 0, MaxIns)

kindOf(c) == c.sequence.kind

RECURSIVE Depth(_)
Depth(seq) == IF seq.isMeta THEN 1 + Depth(seq.items[1].ref) ELSE 1


call(op, args, recv, r) ==
    [op |-> op, args |-> args, recv |-> recv, ok |-> r.ok, ret |-> r.ret,
     value |-> r.value, ran |-> r.ran]

\* The program goes on with what the call returned; a call that threw leaves
\* it with the receiver.
Call(op, args, r) ==
    /\ last' = call(op, args, col, r)
    /\ col' = IF r.ok THEN r.ret ELSE col
    /\ obj' = obj

\* The List machine stops at trees taller than MaxDepth.
BoundedCall(op, args, r) ==
    /\ r.ok => Depth(r.ret.sequence) <= MaxDepth
    /\ Call(op, args, r)

\* super(sequence) of new List(values), new Map(kvs), new Set(values): r is
\* what chunkSequenceSync returned.
construct(kind, r) ==
    callResult(r.ok, newCollection(0, IF r.ok THEN r.seq ELSE newLeafSequence(kind, <<>>)),
               0, TRUE)

Constructed(input, r) ==
    col = r.ret /\ last = call("new", input, r.ret, r) /\ obj = NoObj

InitList ==
    \E input \in SeqsOf(Values, 0, MaxLen) :
       Constructed(input, construct("List", newList(input)))

InitMap ==
    \E input \in SeqsOf(Entries, 0, MaxKvs) :
       Constructed(input, construct("Map", newMap(input)))

InitSet ==
    \E input \in SeqsOf(Keys, 0, MaxKvs) :
       Constructed(input, construct("Set", newSet(input)))

Init == InitList \/ InitMap \/ InitSet

ListGet ==
    /\ kindOf(col) = "List"
    /\ \E idx \in 0..(size(col) - 1) : Call("get", <<idx>>, listGet(col, idx))

ListSplice ==
    /\ kindOf(col) = "List"
    /\ \E idx \in 0..size(col) :
         \E d \in 0..Min(MaxDel, size(col) - idx) :
           \E ins \in Inserts :
              /\ size(col) - d + Len(ins) <= MaxLen
              /\ BoundedCall("splice", <<idx, d, ins>>, listSplice(col, idx, d, ins))

ListInsert ==
    /\ kindOf(col) = "List"
    /\ \E idx \in 0..size(col) :
         \E ins \in Inserts :
            /\ size(col) + Len(ins) <= MaxLen
            /\ BoundedCall("insert", <<idx, 0, ins>>, listInsert(col, idx, ins))

ListRemove ==
    /\ kindOf(col) = "List"
    /\ \E idx \in 0..(size(col) - 1) :
         BoundedCall("remove", <<idx, 1, <<>> >>, listRemove(col, idx))

ListAppend ==
    /\ kindOf(col) = "List"
    /\ \E ins \in Inserts :
         /\ size(col) + Len(ins) <= MaxLen
         /\ BoundedCall("append", <<size(col), 0, ins>>, listAppend(col, ins))

MapHas ==
    /\ kindOf(col) = "Map"
    /\ \E k \in Keys : Call("has", <<k>>, mapHas(col, k))

MapGet ==
    /\ kindOf(col) = "Map"
    /\ \E k \in Keys : Call("get", <<k>>, mapGet(col, k))

MapSet ==
    /\ kindOf(col) = "Map"
    /\ \E k \in Keys : \E v \in Values : Call("set", <<k, v>>, mapSet(col, k, v))

MapDelete ==
    /\ kindOf(col) = "Map"
    /\ \E k \in Keys : Call("delete", <<k>>, mapDelete(col, k))

SetHas ==
    /\ kindOf(col) = "Set"
    /\ \E k \in Keys : Call("has", <<k>>, setHas(col, k))

SetAdd ==
    /\ kindOf(col) = "Set"
    /\ \E k \in Keys : Call("add", <<k>>, setAdd(col, k))

SetDelete ==
    /\ kindOf(col) = "Set"
    /\ \E k \in Keys : Call("delete", <<k>>, setDelete(col, k))

\* toJS with both arguments from one past the length below zero to one past
\* it above.
ListToJS ==
    /\ kindOf(col) = "List"
    /\ \E start \in (0 - MaxLen - 1)..(MaxLen + 1) :
         \E end \in (0 - MaxLen - 1)..(MaxLen + 1) :
            Call("toJS", <<start, end>>, listToJS(col, start, end))

SpecToJS == InitList /\ [][ListToJS]_vars

NextList == ListGet \/ ListSplice \/ ListInsert \/ ListRemove \/ ListAppend

NextMap == MapHas \/ MapGet \/ MapSet \/ MapDelete

NextSet == SetHas \/ SetAdd \/ SetDelete

Next == NextList \/ NextMap \/ NextSet

Spec == Init /\ [][Next]_vars

SpecList == InitList /\ [][NextList]_vars

SpecMap == InitMap /\ [][NextMap]_vars

InitOrdered == InitMap \/ InitSet

NextOrdered == NextMap \/ NextSet

SpecOrdered == InitOrdered /\ [][NextOrdered]_vars

\* first() and last() of a Map or a Set.
OrderedFirstOrLast ==
    \E atLast \in BOOLEAN :
       Call(IF atLast THEN "last" ELSE "first", <<>>, firstOrLast(col, atLast))

SpecFirstLast == InitOrdered /\ [][OrderedFirstOrLast]_vars

\* Two Maps, each built from its sorted entries, and the diff of one from the
\* other.
DiffInputs ==
    {kvs \in SeqsOf(Entries, 0, MaxKey) :
        \A i \in 1..(Len(kvs) - 1) : kvs[i][KEY] < kvs[i + 1][KEY]}

InitDiff == \E input \in DiffInputs : Constructed(input, construct("Map", newMap(input)))

MapDiff ==
    /\ last.op = "new"
    /\ \E input \in DiffInputs :
         \E from \in {construct("Map", newMap(input)).ret} :
            Call("diff", from, mapDiff(col, from))

SpecDiff == InitDiff /\ [][MapDiff]_vars

\* A call on the object the program holds: the object goes on as the call
\* left it, the collection is not touched.
ObjCall(op, args, r) ==
    /\ last' = call(op, args, obj, r)
    /\ obj' = r.ret
    /\ col' = col

Holding(input, r, o) ==
    col = r.ret /\ last = call("new", input, r.ret, r) /\ obj = o

\* The reads of a Set: has(k), first(), last().
SetReads == {<<"has", k>> : k \in Keys} \cup {<<"first", Null>>, <<"last", Null>>}

\* A cursor on a collection, as the methods of the collections obtain it:
\* newCursorAtIndex on a List, newCursorAtKey without a key on a Set, at the
\* first or at the last item.
newCursor(cur) == [type |-> "cursor", cur |-> cur]

InitListCursor ==
    \E input \in SeqsOf(Values, 0, MaxLen) :
       \E r \in {construct("List", newList(input))} :
          \E idx \in 0..Len(input) :
             Holding(input, r, newCursor(newCursorAtIndex(r.ret.sequence, idx)))

InitSetCursor ==
    \E input \in SeqsOf(Keys, 0, MaxKvs) :
       \E r \in {construct("Set", newSet(input))} :
          \E atLast \in BOOLEAN :
             Holding(input, r,
                     newCursor(newCursorAtKey(r.ret.sequence, Null, FALSE, atLast).cur))

InitCursor == InitListCursor \/ InitSetCursor

cursorMoved(m) == callResult(TRUE, newCursor(m.cur), m.ok, FALSE)

CursorAdvance ==
    /\ obj.type = "cursor"
    /\ ObjCall("advance", <<>>, cursorMoved(advance(obj.cur, 1)))

CursorRetreat ==
    /\ obj.type = "cursor"
    /\ ObjCall("retreat", <<>>, cursorMoved(retreat(obj.cur, 1)))

NextCursor == CursorAdvance \/ CursorRetreat

\* A Blob of up to MaxLen bytes and the reader getReader() returns.
InitBlobReader ==
    \E input \in SeqsOf(Values, 0, MaxLen) :
       \E r \in {construct("Blob", newBlob(input))} :
          Holding(input, r, newBlobReader(r.ret.sequence))

Offsets == (0 - MaxSeek)..MaxSeek

Whences == 0..3

BlobRead ==
    /\ obj.type = "reader"
    /\ ObjCall("read", <<>>, blobRead(obj))

BlobReadSettled ==
    /\ obj.type = "reader" /\ obj.pending.op = "read"
    /\ ObjCall("readSettled", <<>>, blobReadSettled(obj))

\* The model stops at positions more than MaxSeek past the end.
BlobSeek ==
    /\ obj.type = "reader"
    /\ \E offset \in Offsets :
         \E whence \in Whences :
            /\ seekAbs(obj, offset, whence) <= numLeaves(obj.sequence) + MaxSeek
            /\ ObjCall("seek", <<offset, whence>>, blobSeek(obj, offset, whence))

BlobSeekSettled ==
    /\ obj.type = "reader" /\ obj.pending.op = "seek"
    /\ ObjCall("seekSettled", <<>>, blobSeekSettled(obj))

\* A cursor on a Set as newCursorAtValue makes it for a key, for a lookup or
\* for an insertion.
InitOrderedCursor ==
    \E input \in SeqsOf(Keys, 0, MaxKvs) :
       \E r \in {construct("Set", newSet(input))} :
          \E key \in Keys : \E forInsertion \in BOOLEAN :
             Holding(input, r,
                     newCursor(newCursorAtValue(r.ret.sequence, key, forInsertion,
                                                FALSE).cur))

CursorAdvanceChunk ==
    /\ obj.type = "cursor"
    /\ ObjCall("advanceChunk", <<>>, cursorMoved(advanceChunk(obj.cur)))

CursorAdvanceLocal ==
    /\ obj.type = "cursor"
    /\ \E allowPastEnd \in BOOLEAN :
         \E al \in {advanceLocal(obj.cur[1], allowPastEnd)} :
            ObjCall("advanceLocal", <<allowPastEnd>>,
                    cursorMoved([cur |-> [obj.cur EXCEPT ![1] = al.f], ok |-> al.ok]))

InitCursors == InitCursor \/ InitOrderedCursor

NextCursors == NextCursor \/ CursorAdvanceChunk \/ CursorAdvanceLocal

SpecCursors == InitCursors /\ [][NextCursors]_vars

\* seekTo(key, lastPositionIfNotfound) called on frame j of a cursor.
CursorSeekTo ==
    /\ obj.type = "cursor"
    /\ \E j \in 1..Len(obj.cur) : \E key \in Keys : \E lastPositionIfNotfound \in BOOLEAN :
         \E sk \in {seekTo(obj.cur[j], key, lastPositionIfNotfound)} :
            ObjCall("seekTo", <<j, key, lastPositionIfNotfound>>,
                    callResult(~sk.threw, newCursor([obj.cur EXCEPT ![j] = sk.f]), sk.ok,
                               FALSE))

SpecSeek == InitSetCursor /\ [][CursorSeekTo]_vars

\* A new writer; the program holds no collection yet.
NoCol == newCollection(0, NoSeq)

Writing(o) ==
    col = NoCol /\ obj = o /\ last = call("new", <<>>, o, callResult(TRUE, o, 0, FALSE))

InitWriter == \E kind \in {"List", "Blob"} : Writing(newWriter(kind))

\* A ListWriter is given one value, a BlobWriter a chunk of up to MaxIns bytes.
WriterWrite ==
    /\ obj.type = "writer"
    /\ \E items \in Inserts :
         /\ obj.kind = "List" => Len(items) = 1
         /\ Len(obj.wrote) + Len(items) <= MaxLen
         /\ ObjCall("write", items, writerWrite(obj, items))

WriterClose ==
    /\ obj.type = "writer"
    /\ ObjCall("close", <<>>, writerClose(obj))

WriterGet ==
    /\ obj.type = "writer"
    /\ ObjCall("get", <<>>, writerGet(obj))

NextWriter == WriterWrite \/ WriterClose \/ WriterGet

SpecWriter == InitWriter /\ [][NextWriter]_vars

\* list.forEach(cb) on a List of up to MaxLen values, once its cursor is
\* there: calls are the (v, i) given to cb so far, pending the calls whose
\* promise is not fulfilled yet, fulfilled whether forEach's own promise is.
InitForEach ==
    \E input \in SeqsOf(Values, 0, MaxLen) :
       \E r \in {construct("List", newList(input))} :
          Holding(input, r,
                  [type |-> "forEach", cursor |-> newCursorAtIndex(r.ret.sequence, 0),
                   calls |-> <<>>, pending |-> {}, fulfilled |-> FALSE])

\* One turn of the loop of iter: cb is called with the current item and the
\* next index, its promise is pushed, and the cursor moves on.
ForEachCallback ==
    /\ obj.type = "forEach" /\ valid(obj.cursor[1])
    /\ ObjCall("cb", <<getCurrent(obj.cursor[1]), Len(obj.calls)>>,
               callResult(TRUE,
                          [obj EXCEPT !.calls = Append(@, [v |-> getCurrent(obj.cursor[1]),
                                                           i |-> Len(obj.calls)]),
                                      !.pending = @ \cup {Len(obj.calls)},
                                      !.cursor = advance(@, 1).cur],
                          "pending", FALSE))

\* The promise one call of cb returned is fulfilled.
CallbackSettled ==
    /\ obj.type = "forEach"
    /\ \E i \in obj.pending :
         ObjCall("cbSettled", <<i>>,
                 callResult(TRUE, [obj EXCEPT !.pending = @ \ {i}], 0, FALSE))

\* iter has returned and Promise.all(promises) is fulfilled.
ForEachFulfilled ==
    /\ obj.type = "forEach" /\ ~obj.fulfilled
    /\ ~valid(obj.cursor[1]) /\ obj.pending = {}
    /\ ObjCall("forEachSettled", <<>>,
               callResult(TRUE, [obj EXCEPT !.fulfilled = TRUE], 0, FALSE))

NextForEach == ForEachCallback \/ CallbackSettled \/ ForEachFulfilled

SpecForEach == InitForEach /\ [][NextForEach]_vars

\* An advance that always waits for the root frame.
advanceStartAtRoot(cur, j, allowPastEnd) == [cur |-> cur, hop |-> Len(cur)]

\* What _advanceMaybeAllowPastEnd on frame j does before its first await: the
\* frames from j upwards move within their chunks until one succeeds.  The
\* result is [cur, hop]: hop is the level that moved within its chunk, 0
\* when none did; the frames below it are synced after the awaits.
RECURSIVE advanceStart(_, _, _)
advanceStart(cur, j, allowPastEnd) ==
    IF cur[j].idx = length(cur[j]) THEN [cur |-> cur, hop |-> 0]
    ELSE The({IF al.ok THEN [cur |-> [cur EXCEPT ![j] = al.f], hop |-> j]
              ELSE IF j < Len(cur)
              THEN advanceStart([cur EXCEPT ![j] = al.f], j + 1, FALSE)
              ELSE [cur |-> [cur EXCEPT ![j] = al.f], hop |-> 0] :
                 al \in {advanceLocal(cur[j], allowPastEnd)}})

\* What a call of next() settles with.
iterResult(state, value) == [state |-> state, value |-> value]

\* new SequenceIterator(curP) once curP is fulfilled: hop is the level the
\* awaits of an advance in flight wait for (0: none), results what the calls
\* of next() settled with so far.
newSequenceIterator(at, cur) ==
    [type |-> "iterator", at |-> at, cursor |-> cur, hop |-> 0, closed |-> FALSE,
     results |-> <<>>]

\* list.iterator() is iteratorAt(0).
InitListIterator ==
    \E input \in SeqsOf(Values, 0, MaxLen) :
       \E r \in {construct("List", newList(input))} :
          \E i \in 0..Len(input) :
             Holding(input, r,
                     newSequenceIterator(i, newCursorAtIndex(r.ret.sequence, i)))

\* set.iterator() is iteratorAt(null).
InitSetIterator ==
    \E input \in SeqsOf(Keys, 0, MaxKvs) :
       \E r \in {construct("Set", newSet(input))} :
          \E k \in {Null} \cup Keys :
             Holding(input, r,
                     newSequenceIterator(k, newCursorAtValue(r.ret.sequence, k,
                                                            FALSE, FALSE).cur))

InitIterator == InitListIterator \/ InitSetIterator

\* next(): cur.advance() is called and its promise, not awaited, is taken
\* for true; getCurrent() then reads the cursor as the advance left it
\* before its first await, and its invariant rejects the call when the cursor
\* is not on an item.
IteratorNext ==
    /\ obj.type = "iterator" /\ Len(obj.results) <= MaxLen
    /\ \E s \in {advanceStart(obj.cursor, 1, TRUE)} :
         \E res \in {IF obj.closed THEN iterResult("done", Null)
                      ELSE IF valid(s.cur[1])
                      THEN iterResult("value", getCurrent(s.cur[1]))
                      ELSE iterResult("rejected", Null)} :
            ObjCall("next", <<>>,
                    callResult(res.state # "rejected",
                               IF obj.closed
                               THEN [obj EXCEPT !.results = Append(@, res)]
                               ELSE [obj EXCEPT !.results = Append(@, res),
                                                !.cursor = s.cur,
                                                !.hop = IF s.hop > 1 THEN s.hop ELSE @],
                               res, FALSE))

\* The awaits of the advance in flight return: the frames below the one
\* that moved are synced and stand on their first items.
IteratorAdvanceSettled ==
    /\ obj.type = "iterator" /\ obj.hop > 1
    /\ ObjCall("advanced", <<>>,
               callResult(TRUE, [obj EXCEPT !.cursor = syncDown(@, obj.hop - 1),
                                            !.hop = 0],
                          TRUE, FALSE))

\* return(): the iterator is closed.
IteratorReturn ==
    /\ obj.type = "iterator" /\ ~obj.closed
    /\ ObjCall("return", <<>>,
               callResult(TRUE, [obj EXCEPT !.closed = TRUE],
                          iterResult("done", Null), FALSE))

NextIterator == IteratorNext \/ IteratorAdvanceSettled \/ IteratorReturn

SpecIterator == InitIterator /\ [][NextIterator]_vars

\* A read in flight on the collection: get(arg) on a List, has(arg), first()
\* or last() on a Set.  cursor is the cursor of its own it has built so far,
\* childSeq the sequence its loop enters next (NoSeq once the loop is over),
\* idx what is left of the index.
newReader(c, op, arg) ==
    [op |-> op, arg |-> arg, cursor |-> <<>>, childSeq |-> c.sequence, idx |-> arg,
     settled |-> FALSE, ok |-> TRUE, value |-> Null]

\* One turn of a read r that sees cursor as its cursor: a pass of the loop of
\* newCursorAtIndex or newCursorAtKey up to its await, or, the loop over,
\* what the method returns.
readerPass(r, cursor) ==
    IF r.childSeq = NoSeq
    THEN (IF r.op = "get"
          THEN [r EXCEPT !.settled = TRUE, !.ok = valid(cursor[1]),
                         !.value = IF valid(cursor[1]) THEN getCurrent(cursor[1]) ELSE Null]
          ELSE IF r.op = "has"
          THEN [r EXCEPT !.settled = TRUE,
                         !.value = cursorOnKey([cur |-> cursor, threw |-> FALSE], r.arg)]
          ELSE [r EXCEPT !.settled = TRUE,
                         !.value = IF valid(cursor[1]) THEN getCurrent(cursor[1]) ELSE Null])
    ELSE IF r.op = "get"
    THEN The({[r EXCEPT !.cursor = <<a.f>> \o cursor,
                        !.idx = @ - a.off,
                        !.childSeq = getChildSequence(r.childSeq, a.f.idx)] :
                 a \in {advanceToOffset(newFrame(r.childSeq, 0), r.idx)}})
    ELSE The({[r EXCEPT !.cursor = <<sk.f>> \o cursor,
                        !.childSeq = IF sk.ok THEN getChildSequence(r.childSeq, sk.f.idx)
                                     ELSE NoSeq] :
                 sk \in {IF r.op = "has"
                         THEN seekTo(newFrame(r.childSeq, 0), r.arg, FALSE)
                         ELSE [f |-> newFrame(r.childSeq, IF r.op = "last" THEN 0 - 1 ELSE 0),
                               ok |-> TRUE, threw |-> FALSE]}})

\* A turn in which read k goes on with the cursor the other read built.
readerStepShared(rs, k) ==
    readerPass(rs[k], IF rs[3 - k].cursor # <<>> THEN rs[3 - k].cursor ELSE rs[k].cursor)

\* A turn of read k of the reads rs in flight.
readerStep(rs, k) == readerPass(rs[k], rs[k].cursor)

\* Two reads begun on one collection, neither awaited yet.
InitReaders ==
    \/ \E input \in SeqsOf(Values, 1, MaxLen) :
          \E r \in {construct("List", newList(input))} :
             \E i1 \in 0..(Len(input) - 1) : \E i2 \in 0..(Len(input) - 1) :
                Holding(input, r, [type |-> "readers",
                                   readers |-> <<newReader(r.ret, "get", i1),
                                                 newReader(r.ret, "get", i2)>>])
    \/ \E input \in SeqsOf(Keys, 0, MaxKvs) :
          \E r \in {construct("Set", newSet(input))} :
             \E a1 \in SetReads : \E a2 \in SetReads :
                Holding(input, r, [type |-> "readers",
                                   readers |-> <<newReader(r.ret, a1[1], a1[2]),
                                                 newReader(r.ret, a2[1], a2[2])>>])

\* The microtask queue runs a turn of one of the reads.
ReaderStep ==
    /\ obj.type = "readers"
    /\ \E k \in 1..2 :
         /\ ~obj.readers[k].settled
         /\ ObjCall("turn", <<k>>,
                    callResult(TRUE, [obj EXCEPT !.readers[k] = readerStep(obj.readers, k)],
                               0, FALSE))

SpecReaders == InitReaders /\ [][ReaderStep]_vars

NextBlobRead == BlobRead \/ BlobReadSettled

NextBlob == BlobRead \/ BlobReadSettled \/ BlobSeek \/ BlobSeekSettled

SpecBlobRead == InitBlobReader /\ [][NextBlobRead]_vars

SpecBlob == InitBlobReader /\ [][NextBlob]_vars

SpecCursor == InitCursor /\ [][NextCursor]_vars

\* ---------------------------------------------------------- chunker machine
\* A chunker in the hands of its caller: constructed on a cursor into the
\* collection col (or on none), given Append, Skip and advanceTo calls, and
\* then Done.
MaxAppend == 2   \* most items one chunker is given
MaxJumps == 1    \* most advanceTo calls on one chunker

\* Consuming the items between the chunker's cursor and next one by one:
\* appendEntry of the current item, then advance.
RECURSIVE consumeTo(_, _)
consumeTo(sc, next) ==
    IF sc.failed \/ ~(cursorCompare(sc.cur, next, 1) < 0) THEN sc
    ELSE IF ~valid(sc.cur[1]) THEN fail(sc)
    ELSE consumeTo([appendEntry(sc, 1, currentEntry(sc.cur[1])).sc
                       EXCEPT !.cur = advance(@, 1).cur], next)

\* The number of leaf items before the position of a cursor.
flatPos(cur) ==
    IF cur = <<>> THEN 0
    ELSE cur[1].idx
         + SumSeq([j \in 1..(Len(cur) - 1) |->
                      IF cur[j + 1].idx > 0
                      THEN cumulativeNumberOfLeaves(cur[j + 1].sequence, cur[j + 1].idx - 1)
                      ELSE 0])

\* The object: sc is the chunker, seq what Done returned, dones the number of
\* Done calls, start the cursor it was constructed on, key the key a Set
\* chunker is positioned for, edited whether that key has been appended or
\* skipped, next the cursor of the last advanceTo.  out is what the caller
\* has put into the new sequence so far (the items before the cursor, the
\* items appended, the items advanceTo went over) and pos the number of old
\* items the caller has dealt with.  ref and refSeq are a second chunker that
\* is given the same calls, but consumeTo in place of advanceTo.
newChunker(kind, cur, key) ==
    The({[type |-> "chunker", sc |-> sc, seq |-> NoSeq, dones |-> 0, start |-> cur,
          key |-> key, edited |-> FALSE, appended |-> 0, jumps |-> 0, next |-> <<>>,
          out |-> IF cur = <<>> THEN <<>>
                  ELSE SubSeq(Flatten(Last(cur).sequence), 1, flatPos(cur)),
          pos |-> flatPos(cur),
          ref |-> sc, refSeq |-> NoSeq] :
            sc \in {newSequenceChunker(kind, cur)}})

chunkerCalled(o) == callResult(~o.sc.failed, o, 0, TRUE)

InitChunker ==
    \/ \E input \in SeqsOf(Values, 0, MaxLen) :
          \E r \in {construct("List", newList(input))} :
             \E idx \in 0..Len(input) :
                Holding(input, r,
                        newChunker("List", newCursorAtIndex(r.ret.sequence, idx), Null))
    \/ \E input \in SeqsOf(Keys, 0, MaxKvs) :
          \E r \in {construct("Set", newSet(input))} :
             \E k \in Keys :
                Holding(input, r,
                        newChunker("Set",
                                   newCursorAtValue(r.ret.sequence, k, TRUE, FALSE).cur, k))
    \/ \E kind \in {"List", "Set"} :
          Holding(<<>>, construct(kind, chunkSequenceSync(kind, <<>>)),
                  newChunker(kind, <<>>, Null))

\* The cursor of a chunker is on the key it is positioned for.
onKey(o) == valid(o.sc.cur[1]) /\ equals(getCurrent(o.sc.cur[1]), o.key)

\* Append(item).  A Set is given the key its cursor was sought for, when the
\* set has not got it, and without a cursor keys in ascending order.
ChunkerAppend ==
    /\ obj.type = "chunker" /\ obj.dones = 0 /\ ~obj.sc.failed
    /\ obj.appended < MaxAppend
    /\ \E item \in (IF obj.sc.kind = "List" THEN Values ELSE Keys) :
         /\ obj.sc.kind = "Set" =>
               IF obj.sc.lv[1].hasCur
               THEN item = obj.key /\ ~obj.edited /\ ~onKey(obj)
               ELSE item > obj.key
         /\ ObjCall("Append", <<item>>,
                    chunkerCalled([obj EXCEPT !.sc = chunkerAppend(@, 1, item),
                                              !.ref = chunkerAppend(@, 1, item),
                                              !.appended = @ + 1,
                                              !.out = Append(@, item),
                                              !.key = IF obj.sc.kind = "Set" THEN item ELSE @,
                                              !.edited = TRUE]))

\* Skip(): the caller drops the item under the cursor; of a Set, the key the
\* cursor was sought for.
ChunkerSkip ==
    /\ obj.type = "chunker" /\ obj.dones = 0 /\ ~obj.sc.failed
    /\ obj.sc.lv[1].hasCur /\ valid(obj.sc.cur[1])
    /\ obj.sc.kind = "Set" => (~obj.edited /\ onKey(obj))
    /\ ObjCall("Skip", <<>>,
               chunkerCalled([obj EXCEPT !.sc = Skip(@), !.ref = Skip(@), !.edited = TRUE,
                                         !.pos = @ + 1]))

\* advanceTo(next): next is a cursor into col at or after the chunker's
\* cursor, at an index of a List or sought for a larger key of a Set.
ChunkerAdvanceTo ==
    /\ obj.type = "chunker" /\ obj.dones = 0 /\ ~obj.sc.failed
    /\ obj.sc.lv[1].hasCur /\ obj.jumps < MaxJumps
    /\ \E t \in (IF obj.sc.kind = "List" THEN 0..size(col)
                 ELSE {k \in Keys : k > obj.key}) :
         \E next \in {IF obj.sc.kind = "List" THEN newCursorAtIndex(col.sequence, t)
                      ELSE newCursorAtValue(col.sequence, t, TRUE, FALSE).cur} :
            /\ cursorCompare(obj.sc.cur, next, 1) <= 0
            /\ ObjCall("advanceTo", <<t>>,
                       chunkerCalled([obj EXCEPT !.sc = advanceTo(@, 1, next),
                                                 !.ref = consumeTo(@, next),
                                                 !.jumps = @ + 1,
                                                 !.next = next,
                                                 !.out = @ \o SubSeq(Flatten(col.sequence), obj.pos + 1,
                                                                     flatPos(next)),
                                                 !.pos = Max(@, flatPos(next)),
                                                 !.key = IF obj.sc.kind = "Set" THEN t ELSE @,
                                                 !.edited = FALSE]))

\* Done(), a first and a second time.
ChunkerDone ==
    /\ obj.type = "chunker" /\ obj.dones < 2 /\ ~obj.sc.failed
    /\ ObjCall("Done", <<>>,
               The({The({chunkerCalled([obj EXCEPT !.sc = d.sc,
                                                   !.seq = IF obj.dones = 0 THEN d.seq ELSE @,
                                                   !.dones = @ + 1,
                                                   !.ref = r.sc,
                                                   !.refSeq = IF obj.dones = 0 THEN r.seq ELSE @]) :
                            r \in {Done(obj.ref, 1)}}) :
                       d \in {Done(obj.sc, 1)}}))

NextChunker == ChunkerAppend \/ ChunkerSkip \/ ChunkerAdvanceTo \/ ChunkerDone

SpecChunker == InitChunker /\ [][NextChunker]_vars

\* ------------------------------------------------------------------ claims
\* The items of a collection, left to right over its leaf chunks.
Contents(c) == Flatten(c.sequence)

ListMutators == {"splice", "insert", "remove", "append"}

\* The number of leaves in the chunks before the leaf a cursor stands in.
leavesBefore(cur) ==
    SumSeq([j \in 1..(Len(cur) - 1) |->
               IF cur[j + 1].idx > 0
               THEN cumulativeNumberOfLeaves(cur[j + 1].sequence, cur[j + 1].idx - 1)
               ELSE 0])

\* C1: List.get(idx), 0 <= idx < length, returns the element at logical
\* position idx, and newCursorAtIndex(root, idx) ends with the leaf frame's
\* index equal to idx minus the leaves of the chunks before that leaf.
GetReturnsElementAtIndex ==
    /\ (kindOf(col) = "List" /\ last.op = "get") =>
          /\ last.ok
          /\ last.value = Contents(last.recv)[last.args[1] + 1]
    /\ kindOf(col) = "List" =>
          \A idx \in 0..(size(col) - 1) :
             newCursorAtIndex(col.sequence, idx)[1].idx
                = idx - leavesBefore(newCursorAtIndex(col.sequence, idx))

\* What splice(idx, d, ...ins) is to return for the items L.
spliced(L, idx, d, ins) == SubSeq(L, 1, idx) \o ins \o SubSeq(L, idx + d + 1, Len(L))

\* C2: L.splice(idx, d, ...ins) returns a list whose contents are L[0..idx),
\* then ins, then L[idx+d..length).
SpliceContents ==
    (kindOf(col) = "List" /\ last.op \in ListMutators) =>
       /\ last.ok
       /\ Contents(last.ret)
            = spliced(Contents(last.recv), last.args[1], last.args[2], last.args[3])

\* C4: whatever splices led to a list, its tree is the tree bulk construction
\* makes of the same items.
HistoryIndependence ==
    kindOf(col) = "List" => col.sequence = newList(Contents(col)).seq

\* Remove the element at i, then insert L.get(i) back at i.
roundTrip(L, i) ==
    LET back(removed, got) ==
            IF removed.ok /\ got.ok
            THEN listSplice(removed.ret, i, 0, <<got.value>>)
            ELSE callResult(FALSE, L, 0, TRUE)
    IN  back(listSplice(L, i, 1, <<>>), listGet(L, i))

\* C5: for every position i of a list L, L.splice(i, 1) followed by
\* splice(i, 0, L.get(i)) yields a list with the contents and the root of L.
SpliceRoundTrip ==
    kindOf(col) = "List" =>
       \A i \in 0..(size(col) - 1) :
          roundTrip(col, i).ok /\ roundTrip(col, i).ret.sequence = col.sequence

Mutators == ListMutators \cup {"set", "delete", "add"}

entriesOf(c) == {Contents(c)[i] : i \in 1..Len(Contents(c))}

keysOf(S) == {e[KEY] : e \in S}

lookup(S, k) == IF k \in keysOf(S) THEN (CHOOSE e \in S : e[KEY] = k)[VALUE] ELSE Null

\* C6: a Map is a dictionary: it holds one entry per key, size counts the
\* keys, new Map holds the keys of its input, set(k, v) puts v at k and
\* delete(k) removes k leaving every other key alone, get(k) returns the value
\* at k or undefined, has(k) tells whether k is present, and no call throws.
MapIsDictionary ==
    kindOf(col) = "Map" =>
       /\ last.ok
       /\ Cardinality(keysOf(entriesOf(col))) = Len(Contents(col))
       /\ size(col) = Cardinality(keysOf(entriesOf(col)))
       /\ last.op = "new" =>
             /\ keysOf(entriesOf(col)) = {last.args[i][KEY] : i \in 1..Len(last.args)}
             /\ entriesOf(col) \subseteq {last.args[i] : i \in 1..Len(last.args)}
       /\ last.op = "set" =>
             entriesOf(last.ret)
               = {e \in entriesOf(last.recv) : e[KEY] # last.args[1]}
                   \cup {<<last.args[1], last.args[2]>>}
       /\ last.op = "delete" =>
             entriesOf(last.ret) = {e \in entriesOf(last.recv) : e[KEY] # last.args[1]}
       /\ last.op = "get" => last.value = lookup(entriesOf(last.recv), last.args[1])
       /\ last.op = "has" => last.value = (last.args[1] \in keysOf(entriesOf(last.recv)))

\* A key larger than every key of a multi-level Map was set, and a key of a
\* later chunk of a multi-level Map was looked up.
SetBeyondLastKey ==
    /\ kindOf(col) = "Map" /\ last.op = "set" /\ last.recv.sequence.isMeta
    /\ \A k \in keysOf(entriesOf(last.recv)) : k < last.args[1]

keyOfItem(kind, item) == IF kind = "Map" THEN item[KEY] ELSE item

inputKeys(l, kind) == {keyOfItem(kind, l.args[i]) : i \in 1..Len(l.args)}

\* The keys visited by iterating from the first entry.
visitedKeys(c) ==
    [i \in 1..Len(iter(newCursorAtKey(c.sequence, Null, FALSE, FALSE).cur)) |->
        keyOfItem(kindOf(c), iter(newCursorAtKey(c.sequence, Null, FALSE, FALSE).cur)[i])]

\* C7: a Map or Set made from any input array is iterated in strictly
\* increasing order of keys, and its size is the number of distinct keys of
\* the input.
ConstructedOrdered ==
    (kindOf(col) \in {"Map", "Set"} /\ last.op = "new") =>
       /\ last.ok
       /\ \A i \in 1..(Len(visitedKeys(col)) - 1) :
             compare(visitedKeys(col)[i], visitedKeys(col)[i + 1]) < 0
       /\ size(col) = Cardinality(inputKeys(last, kindOf(col)))
       /\ Len(visitedKeys(col)) = size(col)

\* The input array was out of order and had a repeated key, and the tree made
\* of it has several chunks.
ConstructedFromDisorder ==
    /\ kindOf(col) \in {"Map", "Set"} /\ last.op = "new" /\ col.sequence.isMeta
    /\ \E i, j \in 1..Len(last.args) :
          i < j /\ keyOfItem(kindOf(col), last.args[i]) > keyOfItem(kindOf(col), last.args[j])
    /\ \E i, j \in 1..Len(last.args) :
          i < j /\ keyOfItem(kindOf(col), last.args[i]) = keyOfItem(kindOf(col), last.args[j])

\* The last position of key k in the input array kvs.
lastIndexOf(kvs, k) ==
    CHOOSE j \in 1..Len(kvs) :
       kvs[j][KEY] = k /\ \A i \in (j + 1)..Len(kvs) : kvs[i][KEY] # k

\* C8: of the entries of the input of new Map with one key, exactly one is
\* in the Map, with the value of the entry that comes last in the input.
LaterDuplicatesWin ==
    (kindOf(col) = "Map" /\ last.op = "new") =>
       \A k \in inputKeys(last, "Map") :
          /\ Cardinality({i \in 1..Len(Contents(col)) : Contents(col)[i][KEY] = k}) = 1
          /\ lookup(entriesOf(col), k) = last.args[lastIndexOf(last.args, k)][VALUE]
          /\ mapGet(col, k).value = last.args[lastIndexOf(last.args, k)][VALUE]

\* The input array had two entries with one key and different values.
ConstructedFromDuplicates ==
    /\ kindOf(col) = "Map" /\ last.op = "new"
    /\ \E i, j \in 1..Len(last.args) :
          i < j /\ last.args[i][KEY] = last.args[j][KEY]
                /\ last.args[i][VALUE] # last.args[j][VALUE]

\* The call l was a mutation with nothing to change.
benign(l) ==
    \/ /\ kindOf(l.recv) = "Map" /\ l.op = "set"
       /\ <<l.args[1], l.args[2]>> \in entriesOf(l.recv)
    \/ /\ kindOf(l.recv) = "Map" /\ l.op = "delete"
       /\ l.args[1] \notin keysOf(entriesOf(l.recv))
    \/ /\ kindOf(l.recv) = "Set" /\ l.op = "delete" /\ l.args[1] \notin entriesOf(l.recv)
    \/ /\ kindOf(l.recv) = "Set" /\ l.op = "add" /\ l.args[1] \in entriesOf(l.recv)

\* C9: a mutation with nothing to change throws nothing, runs no chunker and
\* returns the receiver itself.
BenignReturnsReceiver ==
    benign(last) => (last.ok /\ ~last.ran /\ last.ret = last.recv /\ col = last.recv)

\* Each of the four mutations with nothing to change, on a multi-level tree.
BenignOnTree == benign(last) /\ last.recv.sequence.isMeta

\* The set S of numbers in ascending order.
RECURSIVE ascending(_)
ascending(S) ==
    IF S = {} THEN <<>>
    ELSE <<CHOOSE k \in S : \A m \in S : k <= m>>
            \o ascending(S \ {CHOOSE k \in S : \A m \in S : k <= m})

\* C10: A.diff(B) returns the keys of A not in B, the keys of B not in A and
\* the keys of both with unequal values, each in ascending order; B without
\* the removed and modified keys, with A's entries at the added and modified
\* keys, is A.
DiffCorrect ==
    last.op = "diff" =>
       /\ last.ok
       /\ last.value.added
            = ascending(keysOf(entriesOf(last.recv)) \ keysOf(entriesOf(last.args)))
       /\ last.value.removed
            = ascending(keysOf(entriesOf(last.args)) \ keysOf(entriesOf(last.recv)))
       /\ last.value.modified
            = ascending({k \in keysOf(entriesOf(last.recv)) \cap keysOf(entriesOf(last.args)) :
                           lookup(entriesOf(last.recv), k) # lookup(entriesOf(last.args), k)})
       /\ LET in(ks) == {ks[i] : i \in 1..Len(ks)}
          IN  {e \in entriesOf(last.args) :
                  e[KEY] \notin in(last.value.removed) \cup in(last.value.modified)}
                \cup {e \in entriesOf(last.recv) :
                         e[KEY] \in in(last.value.added) \cup in(last.value.modified)}
                = entriesOf(last.recv)

\* The two Maps of a diff are trees that share a chunk and differ elsewhere.
DiffSharedSubtree ==
    /\ last.op = "diff"
    /\ last.recv.sequence.isMeta /\ last.args.sequence.isMeta
    /\ \E i \in 1..Len(last.recv.sequence.items) :
          \E j \in 1..Len(last.args.sequence.items) :
             last.recv.sequence.items[i].ref = last.args.sequence.items[j].ref
    /\ last.value.modified # <<>>

\* ----------------------------------------------------- claims on the cursor
\* The positions of a cursor the claims name.  The cursor stands on the first
\* item when every frame is at index 0 and on the last item when every frame is
\* at the last index of its chunk; before the start the leaf frame is at -1
\* over the first chunk, past the end it is at length over the last chunk.
onFirstItem(cur) == valid(cur[1]) /\ \A j \in 1..Len(cur) : cur[j].idx = 0

onLastItem(cur) == valid(cur[1]) /\ \A j \in 1..Len(cur) : cur[j].idx = length(cur[j]) - 1

beforeStart(cur) == cur[1].idx = 0 - 1 /\ \A j \in 2..Len(cur) : cur[j].idx = 0

pastEnd(cur) ==
    cur[1].idx = length(cur[1]) /\ \A j \in 2..Len(cur) : cur[j].idx = length(cur[j]) - 1

\* C11: a retreat from the first item of the first chunk returns false and
\* moves only the leaf frame, to -1; an advance from the last item of the last
\* chunk returns false and moves only the leaf frame, to length; the same move
\* again returns false and changes nothing.
FailingMovesAtEnds ==
    [][/\ (last'.op = "retreat" /\ onFirstItem(obj.cur))
           => (~last'.value /\ obj'.cur = [obj.cur EXCEPT ![1].idx = 0 - 1])
       /\ (last'.op = "retreat" /\ beforeStart(obj.cur))
           => (~last'.value /\ obj' = obj)
       /\ (last'.op = "advance" /\ onLastItem(obj.cur))
           => (~last'.value /\ obj'.cur = [obj.cur EXCEPT ![1].idx = length(obj.cur[1])])
       /\ (last'.op = "advance" /\ pastEnd(obj.cur))
           => (~last'.value /\ obj' = obj)]_vars

\* A second advance past the end of a tree of chunks has returned.
AdvancedAgainPastEnd ==
    /\ last.op = "advance" /\ pastEnd(last.recv.cur) /\ Len(obj.cur) >= 2
    /\ length(obj.cur[1]) > 0

\* C12: on a sequence that has items, a retreat from past the end returns
\* true and lands on the last item, an advance from before the start returns
\* true and lands on the first item, and from there advancing visits every
\* item of the sequence in order.
ReentersFromSentinel ==
    [][/\ (last'.op = "retreat" /\ pastEnd(obj.cur) /\ length(obj.cur[1]) > 0)
           => (last'.value /\ onLastItem(obj'.cur))
       /\ (last'.op = "advance" /\ beforeStart(obj.cur) /\ length(obj.cur[1]) > 0)
           => (/\ last'.value
               /\ onFirstItem(obj'.cur)
               /\ iter(obj'.cur) = Contents(col))]_vars

\* An advance from before the start of a tree of several chunks has returned.
ReenteredFromBeforeStart ==
    /\ last.op = "advance" /\ beforeStart(last.recv.cur)
    /\ Len(obj.cur) >= 2 /\ Len(col.sequence.items) >= 2

\* C13 as stated: with the leaf index at -1 or at length, advance and retreat
\* each return false and leave the cursor as it was.
SentinelMovesFail ==
    [][(/\ last'.op \in {"advance", "retreat"}
        /\ (obj.cur[1].idx = 0 - 1 \/ obj.cur[1].idx = length(obj.cur[1])))
           => (~last'.value /\ obj' = obj)]_vars

\* C13 amended: with the leaf index at length an advance returns false and
\* leaves the cursor as it was, and with the leaf index at -1 a retreat does.
SentinelOutwardMovesFail ==
    [][/\ (last'.op = "advance" /\ obj.cur[1].idx = length(obj.cur[1]))
           => (~last'.value /\ obj' = obj)
       /\ (last'.op = "retreat" /\ obj.cur[1].idx = 0 - 1)
           => (~last'.value /\ obj' = obj)]_vars

\* A retreat from before the start has returned.
RetreatedAgainBeforeStart ==
    last.op = "retreat" /\ last.recv.cur[1].idx = 0 - 1 /\ length(obj.cur[1]) > 0

\* k moves of one kind in a row; ok when every one of them returned true.
RECURSIVE advanceN(_, _)
advanceN(cur, k) ==
    IF k = 0 THEN [cur |-> cur, ok |-> TRUE]
    ELSE LET m == advance(cur, 1)
         IN  IF m.ok THEN advanceN(m.cur, k - 1) ELSE m

RECURSIVE retreatN(_, _)
retreatN(cur, k) ==
    IF k = 0 THEN [cur |-> cur, ok |-> TRUE]
    ELSE LET m == retreat(cur, 1)
         IN  IF m.ok THEN retreatN(m.cur, k - 1) ELSE m

\* C14: from a valid position, k advances that all return true followed by k
\* retreats bring the cursor back to the position it started from, every
\* frame included, and the k retreats all return true.
CursorMonotonicity ==
    (obj.type = "cursor" /\ valid(obj.cur[1]))
       => \A k \in 1..MaxLen :
             advanceN(obj.cur, k).ok
                => retreatN(advanceN(obj.cur, k).cur, k) = [cur |-> obj.cur, ok |-> TRUE]

\* The cursor stands in a tree of three levels, on an item from which two
\* advances succeed, the second into a chunk under another root tuple.
MovesAcrossLevels ==
    /\ obj.type = "cursor" /\ Len(obj.cur) >= 3 /\ valid(obj.cur[1])
    /\ advanceN(obj.cur, 2).ok
    /\ advanceN(obj.cur, 2).cur[3].idx # obj.cur[3].idx

\* ------------------------------------------------- claims on the BlobReader
\* C15: a read() or seek() called while an earlier one is pending throws the
\* busy error and leaves the reader as it was, and the pending call then
\* settles with the result, position and cursor it has when no call
\* intervenes.
NotReentrant ==
    [][/\ (last'.op \in {"read", "seek"} /\ obj.pending # NoPending)
           => (~last'.ok /\ last'.value = "busy" /\ obj' = obj)
       /\ (last'.op = "readSettled" /\ last.op \in {"read", "seek"} /\ ~last.ok)
           => (/\ last'.value = blobReadSettled(last.recv).value
               /\ obj' = blobReadSettled(last.recv).ret)
       /\ (last'.op = "seekSettled" /\ last.op \in {"read", "seek"} /\ ~last.ok)
           => (/\ last'.value = blobSeekSettled(last.recv).value
               /\ obj' = blobSeekSettled(last.recv).ret)]_vars

\* A seek has been refused while a read on a chunk of bytes is pending.
BusyCallRefused ==
    /\ last.op = "seek" /\ ~last.ok /\ last.value = "busy"
    /\ obj.pending.op = "read" /\ valid(obj.cursor[1])

\* C16: a seek resolves to offset, position + offset or length + offset by
\* whence, and the read after it returns a slice that begins with the blob's
\* byte at that position, or done when the position is at or past the end.
SeekThenRead ==
    (obj.type = "reader" /\ last.op = "seekSettled") =>
       /\ last.value = (IF last.recv.pending.whence = 0 THEN last.recv.pending.offset
                        ELSE IF last.recv.pending.whence = 1
                        THEN last.recv.pos + last.recv.pending.offset
                        ELSE Len(Contents(col)) + last.recv.pending.offset)
       /\ LET res == blobReadSettled(blobRead(obj).ret).value
          IN  IF last.value < Len(Contents(col))
              THEN ~res.done /\ res.value # <<>>
                   /\ res.value[1] = Contents(col)[last.value + 1]
              ELSE res.done

\* The leaf chunks of a tree, left to right, and the positions at which one
\* of them ends.
RECURSIVE leafChunks(_)
leafChunks(seq) ==
    IF seq.isMeta
    THEN Concat([i \in 1..Len(seq.items) |-> leafChunks(seq.items[i].ref)])
    ELSE <<seq.items>>

chunkEnds(seq) ==
    {SumSeq([j \in 1..i |-> Len(leafChunks(seq)[j])]) : i \in 1..Len(leafChunks(seq))}

\* C17: on a reader that was never sought, a read at a position before the
\* end returns the bytes from that position to the end of the leaf chunk that
\* holds it and moves the position past them; a read at the end returns done.
\* The position starts at 0, so the slices are the blob's bytes in order.
ReadToCompletion ==
    [][last'.op = "readSettled" =>
          IF obj.pos < Len(Contents(col))
          THEN /\ ~last'.value.done
               /\ last'.value.value # <<>>
               /\ last'.value.value
                     = SubSeq(Flatten(col.sequence), obj.pos + 1, obj.pos + Len(last'.value.value))
               /\ obj.pos + Len(last'.value.value) \in chunkEnds(col.sequence)
               /\ \A e \in chunkEnds(col.sequence) :
                     e > obj.pos => e >= obj.pos + Len(last'.value.value)
               /\ obj'.pos = obj.pos + Len(last'.value.value)
          ELSE last'.value.done /\ obj'.pos = obj.pos]_vars

\* ---------------------------------------------------- claims on the writers
\* C18: a writer starts writable; while it is writable write and close are
\* accepted and only close changes the state, to closed; once closed it stays
\* closed, and write and close throw 'Invalid usage' and change nothing; the
\* getter throws 'Invalid usage' while writable and returns the stored result
\* once closed.
WriterLifeCycle ==
    /\ obj.state = "writable"
    /\ [][/\ (last'.op = "write" /\ obj.state = "writable")
              => (last'.ok /\ obj'.state = "writable" /\ obj'.result = obj.result)
          /\ (last'.op = "close" /\ obj.state = "writable")
              => (last'.ok /\ obj'.state = "closed" /\ obj'.result.settled)
          /\ (last'.op \in {"write", "close"} /\ obj.state = "closed")
              => (~last'.ok /\ last'.value = "Invalid usage" /\ obj' = obj)
          /\ (last'.op = "get" /\ obj.state = "writable")
              => (~last'.ok /\ last'.value = "Invalid usage" /\ obj' = obj)
          /\ (last'.op = "get" /\ obj.state = "closed")
              => (last'.ok /\ last'.value = obj.result /\ obj' = obj)
          /\ obj.state = "closed" => obj'.state = "closed"]_vars

\* A second close has been refused on a writer that was written to.
ClosedTwice ==
    /\ last.op = "close" /\ ~last.ok /\ last.recv.state = "closed"
    /\ obj.wrote # <<>>

\* ------------------------------------------------------- claims on forEach
\* The calls forEach owes its callback: every element with its index.
owedCalls(c) == [n \in 1..Len(Contents(c)) |-> [v |-> Contents(c)[n], i |-> n - 1]]

\* C19: the calls of cb made so far are the first of the calls owed, in
\* order; a call is made while promises of earlier calls are still pending;
\* and forEach's promise is fulfilled only after every call owed was made and
\* every promise a call returned is fulfilled.
ForEachCallsAll ==
    obj.type = "forEach" =>
       /\ Len(obj.calls) <= Len(owedCalls(col))
       /\ obj.calls = SubSeq(owedCalls(col), 1, Len(obj.calls))
       /\ (valid(obj.cursor[1]) /\ obj.pending # {}) => ENABLED ForEachCallback
       /\ obj.fulfilled => (obj.calls = owedCalls(col) /\ obj.pending = {})

\* ------------------------------------------------------ claims on iterators
\* The elements an iterator owes: those from index at of a List, those with
\* a key not before at of a Set.
owedValues(c, at) ==
    IF c.sequence.kind = "List" THEN SubSeq(Contents(c), at + 1, Len(Contents(c)))
    ELSE SelectSeq(Contents(c), LAMBDA v : compare(v, at) >= 0)

\* C20: while an iterator is not closed, the n-th call of next() settles
\* with {done: false, value} for the n-th element owed, and with {done: true}
\* once the elements owed are used up.
IteratorYieldsAll ==
    (obj.type = "iterator" /\ ~obj.closed) =>
       \A n \in 1..Len(obj.results) :
          obj.results[n] = IF n <= Len(owedValues(col, obj.at))
                           THEN iterResult("value", owedValues(col, obj.at)[n])
                           ELSE iterResult("done", Null)

\* ----------------------------------------------------------- claims on toJS
\* An index clamped as the claim states it.
clamped(v, len) == IF v > len THEN len ELSE IF v < 0 THEN Max(0, len + v) ELSE v

\* C21: toJS(start, end) returns the elements at the positions from the
\* clamped start up to, not including, the clamped end, in order, and the
\* empty array when the clamped start is not below the clamped end.
ToJSReturnsRange ==
    last.op = "toJS" =>
       LET s == clamped(last.args[1], Len(Contents(col)))
           e == clamped(last.args[2], Len(Contents(col)))
       IN  /\ last.ok
           /\ last.value = IF s >= e THEN <<>> ELSE SubSeq(Contents(col), s + 1, e)

\* C21 witness: a part of a list of more than one level that begins in one
\* leaf chunk and ends in another was returned, given a negative start.
RangeAcrossChunks ==
    /\ last.op = "toJS" /\ last.ok
    /\ col.sequence.isMeta
    /\ last.args[1] < 0
    /\ \E b \in chunkEnds(col.sequence) :
         /\ clamped(last.args[1], Len(Contents(col))) < b
         /\ b < clamped(last.args[2], Len(Contents(col)))
    /\ Len(last.value) < Len(Contents(col))

\* ------------------------------------------------ claims on concurrent reads
\* What a read returns when it runs alone on c: [ok, value].
readAlone(c, op, arg) ==
    IF op = "get" THEN [ok |-> listGet(c, arg).ok, value |-> listGet(c, arg).value]
    ELSE IF op = "has" THEN [ok |-> TRUE, value |-> setHas(c, arg).value]
    ELSE LET cur == newCursorAtKey(c.sequence, Null, FALSE, op = "last").cur
         IN  [ok |-> TRUE, value |-> IF valid(cur[1]) THEN getCurrent(cur[1]) ELSE Null]

FailedSeekLeavesReader ==
    [][(last'.op = "seek" /\ obj.lock = "" /\ ~last'.ok) => obj' = obj]_vars

\* C24: the busy flag is set only while a read or a seek is in flight, so a
\* call made when none is in flight is not refused as busy.
BusyOnlyInFlight ==
    [][obj.type = "reader" =>
          /\ (obj'.pending = NoPending => obj'.lock = "")
          /\ (last'.op \in {"read", "seek"} /\ obj.pending = NoPending)
                => ~(~last'.ok /\ last'.value = "busy")]_vars

\* ------------------------------------------------- claims on cursor frames
\* C25: when no move is in flight, each frame below another holds the
\* sequence that is the child of the parent frame's sequence at the parent's
\* index, one level below it.
FrameInvariant ==
    obj.type = "cursor" =>
       \A j \in 1..(Len(obj.cur) - 1) :
          /\ valid(obj.cur[j + 1])
          /\ obj.cur[j].sequence
                = getChildSequence(obj.cur[j + 1].sequence, obj.cur[j + 1].idx)
          /\ Depth(obj.cur[j + 1].sequence) = 1 + Depth(obj.cur[j].sequence)

\* C25 witness: a retreat has moved a parent frame and synced the frame
\* below it with another chunk.
SyncedAfterParentMove ==
    /\ obj.type = "cursor" /\ last.op = "retreat" /\ last.value
    /\ Len(obj.cur) >= 2
    /\ obj.cur[2].idx # last.recv.cur[2].idx
    /\ obj.cur[1].sequence # last.recv.cur[1].sequence

AppendPosition ==
    (/\ obj.type = "cursor" /\ last.op = "new" /\ col.sequence.kind = "List"
     /\ obj.cur = newCursorAtIndex(col.sequence, numLeaves(col.sequence)))
       => /\ \A j \in 2..Len(obj.cur) : obj.cur[j].idx = length(obj.cur[j]) - 1
          /\ obj.cur[Len(obj.cur)].sequence = col.sequence
          /\ \A j \in 1..(Len(obj.cur) - 1) :
                obj.cur[j].sequence
                   = getChildSequence(obj.cur[j + 1].sequence, obj.cur[j + 1].idx)
          /\ ~obj.cur[1].sequence.isMeta
          /\ obj.cur[1].sequence.items = Last(leafChunks(col.sequence))
          /\ obj.cur[1].idx = length(obj.cur[1])

\* C27 witness: the cursor at the append position of a tree of three levels.
AtAppendPosition ==
    /\ obj.type = "cursor" /\ last.op = "new" /\ col.sequence.kind = "List"
    /\ obj.cur = newCursorAtIndex(col.sequence, numLeaves(col.sequence))
    /\ Len(obj.cur) >= 3

\* The frames below level j synced with their parents, each at its last item.
RECURSIVE syncDownLast(_, _)
syncDownLast(cur, j) ==
    IF j = 0 THEN cur
    ELSE LET c == sync(cur, j)
         IN  syncDownLast([c EXCEPT ![j].idx = length(c[j]) - 1], j - 1)

\* The child sequences a move reads: one for each frame below the frame that
\* moved within its chunk.
childReads(hop) == IF hop > 1 THEN hop - 1 ELSE 0

\* C28: an advance or a retreat reads child sequences only when the leaf
\* frame is at the last (for a retreat: the first) item of its chunk and a
\* parent frame moves; a move within the chunk and a move that fails read
\* none.
ReadsOnlyAtChunkBorders ==
    [][/\ last'.op = "advance" =>
            LET s == advanceStart(obj.cur, 1, TRUE)
            IN  /\ obj'.cur = (IF s.hop > 1 THEN syncDown(s.cur, s.hop - 1) ELSE s.cur)
                /\ childReads(s.hop) > 0
                      <=> (/\ obj.cur[1].idx = length(obj.cur[1]) - 1
                           /\ \E k \in 2..Len(obj.cur) : obj'.cur[k].idx # obj.cur[k].idx)
                /\ (valid(obj.cur[1]) /\ obj.cur[1].idx < length(obj.cur[1]) - 1)
                      => childReads(s.hop) = 0
                /\ ~last'.value => childReads(s.hop) = 0
       /\ last'.op = "retreat" =>
            LET s == retreatStart(obj.cur, 1)
            IN  /\ s.hop > 0 => obj'.cur = syncDownLast(s.cur, s.hop - 1)
                /\ childReads(s.hop) > 0
                      <=> (/\ obj.cur[1].idx = 0
                           /\ \E k \in 2..Len(obj.cur) : obj'.cur[k].idx # obj.cur[k].idx)
                /\ obj.cur[1].idx > 0 => childReads(s.hop) = 0
                /\ ~last'.value => childReads(s.hop) = 0]_vars

\* C28 witness: an advance from the last item of a chunk has moved the root
\* frame of a tree of three levels and read two child sequences.
ReadTwoChildren ==
    /\ obj.type = "cursor" /\ last.op = "advance" /\ last.value
    /\ childReads(advanceStart(last.recv.cur, 1, TRUE).hop) = 2

\* ----------------------------------------------------------- claims on seekTo
\* The indexes of a frame whose key is not before key.
notBefore(f, key) == {i \in 0..(length(f) - 1) : compare(getKey(f.sequence, i), key) >= 0}

Least(S) == CHOOSE i \in S : \A k \in S : i <= k

FirstAndLast ==
    last.op \in {"first", "last"} =>
       /\ last.ok
       /\ IF Contents(col) = <<>>
          THEN last.value = (IF col.sequence.kind = "Map" THEN "undefined" ELSE "null")
          ELSE /\ \E n \in 1..Len(Contents(col)) : last.value = Contents(col)[n]
               /\ \A n \in 1..Len(Contents(col)) :
                     IF last.op = "first"
                     THEN compareWith(col.sequence.kind = "Map", last.value,
                                      Contents(col)[n]) <= 0
                     ELSE compareWith(col.sequence.kind = "Map", last.value,
                                      Contents(col)[n]) >= 0

\* C31 witness: last() has returned the last entry of a Map of three levels.
LastOfDeepTree ==
    /\ last.op = "last" /\ last.ok
    /\ col.sequence.kind = "Map" /\ Depth(col.sequence) >= 3
    /\ last.value = Contents(col)[Len(Contents(col))]

\* --------------------------------------------------- claims on meta tuples
\* Every tuple of the tree summarises its child: numLeaves counts the leaf
\* items below it, the offsets of a meta sequence are the running sums of
\* numLeaves, the key is the largest key below the tuple in a Map or a Set
\* and numLeaves in a List or a Blob.
RECURSIVE Summarised(_)
Summarised(seq) ==
    seq.isMeta =>
       \A i \in 1..Len(seq.items) :
          LET t == seq.items[i]
              below == Flatten(t.ref)
          IN  /\ t.numLeaves = Len(below)
              /\ cumulativeNumberOfLeaves(seq, i - 1)
                    = SumSeq([j \in 1..i |-> seq.items[j].numLeaves])
              /\ IF seq.kind \in {"Map", "Set"}
                 THEN /\ below # <<>>
                      /\ t.key = (IF seq.kind = "Map" THEN Last(below)[KEY] ELSE Last(below))
                      /\ \A n \in 1..Len(below) :
                            compare(IF seq.kind = "Map" THEN below[n][KEY] ELSE below[n],
                                    t.key) <= 0
                 ELSE t.key = t.numLeaves
              /\ Summarised(t.ref)

\* The chunker run of the last call on a List, run again.
lastListRun ==
    IF last.op = "new" THEN chunkSequenceSync("List", last.args)
    ELSE chunkSequence("List", newCursorAtIndex(last.recv.sequence, last.args[1]),
                       last.args[3], last.args[2])

\* C32: in every tree made by construction or by splice, set, add or delete
\* every meta tuple summarises its child, and the check of the indexed meta
\* chunk function has not failed in the chunker run of the last List call.
TuplesSummarise ==
    /\ Summarised(col.sequence)
    /\ (last.ran /\ kindOf(last.recv) = "List") => ~lastListRun.sc.chunkFnThrew

\* C32 witness: a mutation has returned a List of three levels, whose root the
\* indexed meta chunk function built from the tuples of meta sequences.
MutatedDeepTree ==
    /\ last.op \in {"splice", "insert", "remove", "append", "set", "add", "delete"}
    /\ last.ran /\ last.ok
    /\ kindOf(col) = "List"
    /\ Depth(col.sequence) >= 3

\* The first Done of the chunker has returned a sequence.
returned(o) == o.type = "chunker" /\ o.dones >= 1 /\ o.seq # NoSeq

\* The top chunker of o.
top(o) == o.sc.lv[Len(o.sc.lv)]

\* C33: the sequence Done returns is a leaf sequence or a meta sequence of at
\* least two tuples, never a meta sequence of one tuple.
CanonicalRoot ==
    returned(obj) => (~obj.seq.isMeta \/ Len(obj.seq.items) >= 2)

\* C33 witness: Done found a single tuple in the top chunker, the tuple's
\* child was a meta sequence of one tuple, and Done walked down from it.
WalkedDownChain ==
    /\ returned(obj) /\ obj.dones = 1
    /\ ~top(obj).isLeaf /\ Len(top(obj).current) = 1
    /\ top(obj).current[1].item.ref.isMeta
    /\ Len(top(obj).current[1].item.ref.items) = 1
    /\ obj.seq # top(obj).current[1].item.ref

\* C34: after Done has returned, current of the chunker and of every chunker
\* above it is empty, and a second Done on the chunker fails.
DoneEmptiesBuffers ==
    /\ returned(obj) => \A i \in 1..Len(obj.sc.lv) : obj.sc.lv[i].current = <<>>
    /\ (obj.type = "chunker" /\ obj.dones = 2) => ~last.ok

\* C34 amended: after Done has returned, current is empty in every chunker
\* except a top chunker that is not the leaf chunker and held a single tuple,
\* which keeps that tuple; a second Done on the chunker fails.
DoneEmptiesBuffersButTop ==
    /\ returned(obj) =>
          \A i \in 1..Len(obj.sc.lv) :
             \/ obj.sc.lv[i].current = <<>>
             \/ /\ ~obj.sc.lv[i].isLeaf /\ Len(obj.sc.lv[i].current) = 1
                /\ \A j \in (i + 1)..Len(obj.sc.lv) : obj.sc.lv[j].current = <<>>
                /\ obj.seq = canonicalRoot(obj.sc.lv[i].current[1].item)
    /\ (obj.type = "chunker" /\ obj.dones = 2) => ~last.ok

\* C34 witness: a second Done has been called on a chunker whose first Done
\* returned a tree of more than one level.
DoneTwice ==
    /\ returned(obj) /\ obj.dones = 2 /\ obj.seq.isMeta
    /\ last.op = "Done"

\* The chunks of a tree: the sequences its meta tuples refer to, at every
\* level.
RECURSIVE Chunks(_)
Chunks(seq) ==
    IF seq.isMeta
    THEN UNION {{seq.items[i].ref} \cup Chunks(seq.items[i].ref) : i \in 1..Len(seq.items)}
    ELSE {}

\* The chunks the store holds: those of the tree the chunker was constructed
\* on and those the chunker has written.
stored(o) == Chunks(col.sequence) \cup o.sc.written

\* C35: every tuple a parent chunker holds and every tuple of the returned
\* tree refers to a chunk that is in the store, the root sequence Done creates
\* is not written, and a chunker that never got a parent has written nothing.
WriteOrdering ==
    obj.type = "chunker" =>
       /\ \A i \in 2..Len(obj.sc.lv) :
             \A n \in 1..Len(obj.sc.lv[i].current) :
                obj.sc.lv[i].current[n].item.ref \in stored(obj)
       /\ returned(obj) => Chunks(obj.seq) \subseteq stored(obj)
       /\ (returned(obj) /\ \E i \in 1..Len(obj.sc.lv) : obj.sc.lv[i].unwrittenCol = obj.seq)
             => obj.seq \notin obj.sc.written
       /\ Len(obj.sc.lv) = 1 => obj.sc.written = {}

\* C35 witness: Done has created and returned a meta sequence over chunks the
\* chunker wrote after items were appended.
RootOverWrittenChunks ==
    /\ returned(obj) /\ obj.seq.isMeta /\ obj.appended > 0
    /\ \E i \in 1..Len(obj.sc.lv) : obj.sc.lv[i].unwrittenCol = obj.seq
    /\ \E n \in 1..Len(obj.seq.items) : obj.seq.items[n].ref \in obj.sc.written

\* The hasher of the chunker at level i, freshly reset and fed items one by
\* one.
RECURSIVE fedHasher(_, _, _)
fedHasher(kind, i, items) ==
    IF items = <<>> THEN newRollingValueHasher((i - 1) % 256)
    ELSE levelHashValueBytes(kind, i, Last(items),
                             fedHasher(kind, i, SubSeq(items, 1, Len(items) - 1)))

\* The chunker at level i stands at the edit point of frame i of the cursor
\* it was constructed on.
resumedAt(sc, start, i) ==
    /\ Len(sc.lv) >= i
    /\ sc.lv[i].current =
          [n \in 1..start[i].idx |-> sequenceEntry(1, start[i].sequence.items[n])]
    /\ sc.cur[i] = start[i]
    /\ sc.lv[i].rv = fedHasher(sc.kind, i, SubSeq(start[i].sequence.items, 1, start[i].idx))

\* C36: a chunker just constructed on a cursor holds, at every level of the
\* cursor, the items before the cursor's index in current, has its cursor
\* where it was, has the hasher of a fresh hasher fed those items, and has
\* emitted no chunk.
ResumeReproduces ==
    (obj.type = "chunker" /\ last.op = "new" /\ obj.start # <<>>) =>
       /\ ~obj.sc.failed
       /\ \A i \in 1..Len(obj.start) : resumedAt(obj.sc, obj.start, i)
       /\ obj.sc.written = {}

\* C36 witness: a chunker constructed on a cursor with a parent frame, inside
\* a chunk and inside the parent's chunk, stands at the edit point.
ResumedInsideChunks ==
    /\ obj.type = "chunker" /\ last.op = "new" /\ Len(obj.start) >= 2
    /\ obj.start[1].idx > 0 /\ obj.start[2].idx > 0
    /\ \A i \in 1..Len(obj.start) : resumedAt(obj.sc, obj.start, i)

\* What the new sequence holds when the caller is done: what it has put in
\* so far and the old items it has not dealt with.
expected(o) ==
    o.out \o SubSeq(Flatten(col.sequence), o.pos + 1, Len(Flatten(col.sequence)))

\* The number of old items consumed when finalizeCursor of the leaf chunker
\* stops: the loop of finalizeCursor run on the chunker as Done found it.
stopEnd(before) ==
    LET f == finalizeLoop([before EXCEPT !.lv[1].done = TRUE], 1)
    IN  flatPos(f.cur) + (IF valid(f.cur[1]) THEN 1 ELSE 0)

\* The old leaf chunks that begin at or after the e-th item (an empty
\* sequence has none).
chunksFrom(seq, e) ==
    LET oc == IF Flatten(seq) = <<>> THEN <<>> ELSE leafChunks(seq)
        before(k) == SumSeq([j \in 1..(k - 1) |-> Len(oc[j])])
        n == Cardinality({k \in 1..Len(oc) : before(k) < e})
    IN  SubSeq(oc, n + 1, Len(oc))

\* C37: Done on a chunker with a cursor stops consuming old items at the
\* first boundary it emits on the last item of an old chunk or at the end of
\* the sequence; the old leaf chunks after that point are the last leaf
\* chunks of the new tree, in their order, and were not written again (as far
\* as no other chunk of the new tree has the same items); and the new tree
\* holds the items the caller put in followed by the old items
\* from the cursor on, each once.
ChunkReuse ==
    (returned(obj) /\ obj.dones = 1 /\ obj.start # <<>>) =>
       LET before == last.recv.sc
           e == stopEnd(before)
           kept == chunksFrom(col.sequence, e)
           new == leafChunks(obj.seq)
       IN  /\ Flatten(obj.seq) = expected(obj)
           /\ Len(new) >= Len(kept)
           /\ SubSeq(new, Len(new) - Len(kept) + 1, Len(new)) = kept
           /\ \A k \in 1..Len(kept) :
                 Cardinality({n \in 1..Len(new) : new[n] = kept[k]}) = 1 =>
                    newLeafSequence(obj.sc.kind, kept[k]) \notin obj.sc.written
           /\ \A x \in chunkEnds(col.sequence) :
                 (obj.pos < x /\ x < e) =>
                    Len(obj.out) + (x - obj.pos) \notin chunkEnds(obj.seq)

\* C37 witness: Done stopped consuming before the end of the old sequence
\* and kept an old leaf chunk, after the caller had appended an item.
KeptOldChunk ==
    /\ returned(obj) /\ obj.dones = 1 /\ obj.start # <<>> /\ obj.appended > 0
    /\ obj.pos + 1 < stopEnd(last.recv.sc)
    /\ chunksFrom(col.sequence, stopEnd(last.recv.sc)) # <<>>

\* C38: a chunker that was given advanceTo returns from Done the tree that
\* the chunker consuming the items up to next one by one returns, neither
\* fails unless the other does, and when advanceTo returns the chunker's
\* cursor is next at every level that has a chunker.
AdvanceToIsShortcut ==
    (obj.type = "chunker" /\ obj.jumps > 0) =>
       /\ obj.sc.failed = obj.ref.failed
       /\ obj.dones >= 1 => obj.seq = obj.refSeq
       /\ (last.op = "advanceTo" /\ ~obj.sc.failed) =>
             \A i \in 1..Min(Len(obj.sc.lv), Len(obj.next)) : obj.sc.cur[i] = obj.next[i]

\* C38 witness: advanceTo has gone over two items or more of a tree of
\* several chunks, and Done has returned.
AdvancedOverItems ==
    /\ returned(obj) /\ obj.jumps > 0 /\ Depth(col.sequence) >= 2
    /\ flatPos(obj.next) - flatPos(obj.start) >= 2

\* The chunker at which Done's recursion stopped: the highest one whose
\* done flag is set.
decided(o) == Cardinality({i \in 1..Len(o.sc.lv) : o.sc.lv[i].done})

\* C39: Done's check of a single tuple never fails and handleChunkBoundary
\* is never called with an empty current.
FatalUnreachable == obj.type = "chunker" => ~obj.sc.fatal

\* C39 witness: Done took the decision on the root at a chunker that is not
\* the leaf chunker while a chunker above it existed with nothing pending.
DecidedBelowTop ==
    /\ returned(obj) /\ obj.dones = 1
    /\ decided(obj) >= 2 /\ decided(obj) < Len(obj.sc.lv)

\* The entries of the chunker at level i that its hasher should have seen:
\* all of current, or all but the entry appended last.
fedAsBuffered(sc, i) ==
    \/ sc.lv[i].fed = sc.lv[i].current
    \/ /\ sc.lv[i].current # <<>>
       /\ sc.lv[i].fed = SubSeq(sc.lv[i].current, 1, Len(sc.lv[i].current) - 1)

\* C40: at every point of a chunker's life before Done, and for every kind,
\* the entries hashed since the last Reset are the entries of current, in
\* order and each once, save at most the entry appended last.
HasherMatchesBuffer ==
    (obj.type = "chunker" /\ ~obj.sc.failed /\ obj.dones = 0)
        => \A i \in 1..Len(obj.sc.lv) : fedAsBuffered(obj.sc, i)

\* C40 witness: a chunker that resumed behind items of an old chunk has
\* appended an item and is not done.
AppendedAfterResume ==
    /\ obj.type = "chunker" /\ ~obj.sc.failed /\ obj.dones = 0
    /\ obj.start # <<>> /\ obj.start[1].idx > 0
    /\ obj.appended >= 1 /\ last.op = "Append"

====
